---------------------------- MODULE Spec2Model ----------------------------
(***************************************************************************)
(* Model of the CI/CD pipeline monitor: the request-layer analytics        *)
(* (api/routers/analytics.py, api/routers/pipeline.py on top of            *)
(* api/core/github_client.py) and the scheduled poll job                   *)
(* (monitor/monitor.py).                                                   *)
(*                                                                         *)
(* Conventions.                                                            *)
(*  - A workflow run is a record of the JSON fields the code reads.        *)
(*    A key that is absent from the JSON has the value None here.          *)
(*  - A workflow name is a sequence of characters, so that lower() and     *)
(*    substring search are computed, not assumed.                          *)
(*  - A timestamp field holds a string; isoparse maps it to minutes.       *)
(*  - A float the code rounds to 2 decimals is kept in hundredths: the     *)
(*    integer 3333 stands for 33.33.                                       *)
(*  - An Optional number of the poll job is PyNone or PyNum(hundredths).   *)
(*  - author and message are the author name and the message of the run's  *)
(*    head_commit; None says the key (or head_commit itself) is absent.     *)
(***************************************************************************)
EXTENDS Integers, Sequences, FiniteSets, TLC

VARIABLES
    runs,   \* the workflow runs the upstream API currently reports, in API order
    op,     \* the entry point that ran last ("idle" right after the API changed)
    resp,   \* what that entry point returned or raised, with the locals claims refer to
    notification_rules,    \* the API server's rule list, in list order
    notification_history,  \* the API server's list of notification attempts
    fetch,                 \* a call of GitHubClient.get_recent_runs: its position and locals
    active_connections,    \* WebSocketManager.active_connections, in list order
    subscriptions,         \* WebSocketManager.subscriptions: websocket -> set of event types
    endpoints,             \* per websocket, where its websocket_endpoint coroutine stands
    broadcast              \* a call of WebSocketManager.broadcast: its position and locals

\* The state of the websocket side of the API server
wsVars == <<active_connections, subscriptions, endpoints, broadcast>>

vars == <<runs, op, resp, notification_rules, notification_history, fetch, wsVars>>

---------------------------------------------------------------------------
(* Bounds of the model *)

\* Longest list of workflow runs the upstream API reports to the API server
MaxRuns == 3

\* Longest list of workflow runs the upstream API reports to the poll job
MaxJobRuns == 2

\* Longest list of workflow runs in the specification of the poll job on the runs
\* of CI workflows only
MaxCommitRuns == 3

\* Rules the rule list holds at most
MaxRules == 2

\* Attempts the notification history holds when the last request that appends to
\* it is accepted
MaxHistory == 1

\* Longest list of workflow runs in the specification of the duration statistics
MaxSteadyRuns == 20

\* Longest list of workflow runs in the specification of the failure incidents
MaxIncidentRuns == 11

\* Websocket connections the API server accepts in a behaviour
MaxSockets == 3

\* Branches with runs in the specification of the failure attribution
MaxBranches == 11

---------------------------------------------------------------------------
(* Values *)

None == "<None>"

PyNone == [py |-> "None"]
PyNum(v) == [py |-> "num", val |-> v]

\* Minutes in a day: lookback_days * 24 * 60
DayMinutes == 1440
WeekMinutes == 7 * DayMinutes

\* Characters of the workflow names in use
NameCI == <<"C", "I">>
NameCIMonitor == <<"C", "I", " ", "M", "o", "n", "i", "t", "o", "r">>
NameMonitor == <<"M", "o", "n", "i", "t", "o", "r">>
NameMonitorWorkflows ==
    <<"M", "o", "n", "i", "t", "o", "r", " ", "W", "o", "r", "k", "f", "l", "o", "w", "s">>
NameWorkflow == <<"W", "o", "r", "k", "f", "l", "o", "w">>
KwMonitor == <<"m", "o", "n", "i", "t", "o", "r">>
KwAnalytics == <<"a", "n", "a", "l", "y", "t", "i", "c", "s">>

\* The well-formed timestamp strings the upstream API sends: noon of three days a
\* week apart, the last one being the instant of the request ("now")
Stamps == {"T0", "T1", "T2"}
NoonOffset == DayMinutes \div 2

\* parser.isoparse: minutes of a well-formed timestamp (it raises on any other string)
Parseable(ts) == ts \in Stamps
IsoParse(ts) ==
    CASE ts = "T0" -> NoonOffset
      [] ts = "T1" -> WeekMinutes + NoonOffset
      [] ts = "T2" -> 2 * WeekMinutes + NoonOffset

\* datetime.now(timezone.utc), in minutes: the instant of stamp "T2"
Now == 2 * WeekMinutes + NoonOffset

\* Python's order on the timestamp strings themselves (str.__lt__), as a rank
StrRank(s) ==
    CASE s = "" -> 0
      [] s = "T0" -> 1
      [] s = "T1" -> 2
      [] s = "T2" -> 3
      [] OTHER -> 4

\* Python truthiness of an optional string
Truthy(s) == s # None /\ s # ""

---------------------------------------------------------------------------
(* The workflow runs the model draws from *)

\* Runs of the CI workflow with every field well formed
RegularRuns ==
    [name : {NameCI}, status : {"completed"},
     conclusion : {"success", "failure", "cancelled"},
     head_sha : {"a", "b"}, head_branch : {"main"}, author : {"dev"},
     updated_at : Stamps, run_started_at : {"T0"}, message : {"fix"}]
    \cup
    [name : {NameCI}, status : {"queued"}, conclusion : {None},
     head_sha : {"a", "b"}, head_branch : {"main"}, author : {"dev"},
     updated_at : Stamps, run_started_at : {"T0"}, message : {"fix"}]

\* Runs of the monitoring workflows themselves
MonitorRuns ==
    [name : {NameCIMonitor, NameMonitor}, status : {"completed"},
     conclusion : {"success", "failure"},
     head_sha : {"a"}, head_branch : {"main"}, author : {"dev"},
     updated_at : {"T2"}, run_started_at : {"T0"}, message : {"fix"}]

\* Runs with no usable commit id
ShaLessRuns ==
    [name : {NameCI}, status : {"completed"},
     conclusion : {"success", "failure"},
     head_sha : {"", None}, head_branch : {"main"}, author : {"dev"},
     updated_at : {"T2"}, run_started_at : {"T0"}, message : {"fix"}]

\* Runs whose updated_at is absent or is not a timestamp
StampLessRuns ==
    [name : {NameCI}, status : {"completed"},
     conclusion : {"failure"},
     head_sha : {"a"}, head_branch : {"main"}, author : {"dev"},
     updated_at : {None, "bad"}, run_started_at : {"T0"}, message : {"fix"}]

\* Failed runs whose head_commit is incomplete: no author, no author and no
\* message, or an empty message
CommitLessRuns ==
    {[name |-> NameCI, status |-> "completed", conclusion |-> "failure",
      head_sha |-> "a", head_branch |-> "main", author |-> m[1], updated_at |-> "T2",
      run_started_at |-> "T0", message |-> m[2]] :
        m \in {<<None, "fix">>, <<None, None>>, <<"dev", "">>}}

RunDomain ==
    RegularRuns \cup MonitorRuns \cup ShaLessRuns \cup StampLessRuns \cup CommitLessRuns

\* Successful runs of the CI workflow for one commit, told apart by the time they
\* took: none, a week, or two weeks
SteadyRuns ==
    [name : {NameCI}, status : {"completed"}, conclusion : {"success"},
     head_sha : {"a"}, head_branch : {"main"}, author : {"dev"},
     updated_at : Stamps, run_started_at : {"T0"}, message : {"fix"}]

\* Runs of the CI workflow for one commit: failures of a week and of two weeks ago,
\* and successes of this instant
IncidentRuns ==
    [name : {NameCI}, status : {"completed"}, conclusion : {"failure"},
     head_sha : {"a"}, head_branch : {"main"}, author : {"dev"},
     updated_at : {"T0", "T1"}, run_started_at : {"T0"}, message : {"fix"}]
    \cup
    [name : {NameCI}, status : {"completed"}, conclusion : {"success"},
     head_sha : {"a"}, head_branch : {"main"}, author : {"dev"},
     updated_at : {"T2"}, run_started_at : {"T0"}, message : {"fix"}]

\* Names of the branches (and of their one author each) of a busy repository
BranchNames == <<"b01", "b02", "b03", "b04", "b05", "b06",
                 "b07", "b08", "b09", "b10", "b11", "b12">>

\* Runs of the CI workflow on branch number k, updated at this instant; the first
\* four branches have runs that succeed, the others only runs that fail
BranchRuns(k) ==
    [name : {NameCI}, status : {"completed"},
     conclusion : IF k <= 4 THEN {"success", "failure"} ELSE {"failure"},
     head_sha : {"a"}, head_branch : {BranchNames[k]}, author : {BranchNames[k]},
     updated_at : {"T2"}, run_started_at : {"T0"}, message : {"fix"}]

\* Runs of the CI workflow told apart by commit, time and outcome only
CommitRuns ==
    [name : {NameCI}, status : {"completed"},
     conclusion : {"failure"},
     head_sha : {"a", "b", ""}, head_branch : {"main"}, author : {"dev"},
     updated_at : Stamps, run_started_at : {"T0"}, message : {"fix"}]
    \cup
    [name : {NameCI}, status : {"completed"},
     conclusion : {"success"},
     head_sha : {"a"}, head_branch : {"main"}, author : {"dev"},
     updated_at : Stamps, run_started_at : {"T0"}, message : {"fix"}]

---------------------------------------------------------------------------
(* Helpers standing for Python built-ins *)

Min2(a, b) == IF a <= b THEN a ELSE b

RECURSIVE SumSeq(_)
SumSeq(s) == IF s = <<>> THEN 0 ELSE Head(s) + SumSeq(Tail(s))

SeqMin(s) == CHOOSE x \in {s[i] : i \in 1..Len(s)} : \A j \in 1..Len(s) : x <= s[j]
SeqMax(s) == CHOOSE x \in {s[i] : i \in 1..Len(s)} : \A j \in 1..Len(s) : x >= s[j]

\* s[:n]
Take(s, n) == SubSeq(s, 1, Min2(n, Len(s)))

\* round(num / den, 2) in hundredths, for num >= 0 and den > 0; a tie goes to the
\* even hundredth, as Python's round does on an exactly representable tie
Round2(num, den) ==
    LET q == (num * 100) \div den
        r == (num * 100) % den
    IN  IF 2 * r < den THEN q
        ELSE IF 2 * r > den THEN q + 1
        ELSE IF q % 2 = 0 THEN q ELSE q + 1

\* str.lower() on the characters in use
Lower(c) ==
    CASE c = "C" -> "c"
      [] c = "I" -> "i"
      [] c = "M" -> "m"
      [] c = "W" -> "w"
      [] c = "A" -> "a"
      [] OTHER -> c
LowerStr(s) == [i \in 1..Len(s) |-> Lower(s[i])]

\* needle in hay
Contains(hay, needle) ==
    \E i \in 0..(Len(hay) - Len(needle)) : SubSeq(hay, i + 1, i + Len(needle)) = needle

---------------------------------------------------------------------------
(* api/core/github_client.py *)

\* The name test of filter_ci_cd_runs: any(keyword in workflow_name.lower() ...)
IsMonitorName(name) ==
    \E kw \in {KwMonitor, KwAnalytics} : Contains(LowerStr(name), kw)

filter_ci_cd_runs(rs, exclude_monitor) ==
    SelectSeq(rs, LAMBDA run : ~(exclude_monitor /\ IsMonitorName(run.name)))

\* The time test of get_recent_runs: updated_at truthy, parseable and >= cutoff_time
RecentEnough(run, cutoff_time) ==
    /\ Truthy(run.updated_at)
    /\ Parseable(run.updated_at)
    /\ IsoParse(run.updated_at) >= cutoff_time

\* get_recent_runs on an upstream list shorter than one page of 100
get_recent_runs(api_runs, lookback_minutes, exclude_monitor) ==
    LET cutoff_time == Now - lookback_minutes
        all_runs == SelectSeq(api_runs, LAMBDA run : RecentEnough(run, cutoff_time))
    IN  IF exclude_monitor THEN filter_ci_cd_runs(all_runs, TRUE) ELSE all_runs

---------------------------------------------------------------------------
(* Helpers of api/routers/analytics.py and api/routers/pipeline.py *)

IsCompleted(r) == r.status = "completed"
IsSuccess(r) == r.conclusion = "success"
\* conclusion in ["failure", "timed_out"]
IsFailed(r) == r.conclusion \in {"failure", "timed_out"}

\* _calculate_duration, in seconds; 0 when a timestamp is missing or unparseable
calculate_duration(run) ==
    IF ~Truthy(run.run_started_at) \/ ~Truthy(run.updated_at) THEN 0
    ELSE IF ~Parseable(run.run_started_at) \/ ~Parseable(run.updated_at) THEN 0
    ELSE (IsoParse(run.updated_at) - IsoParse(run.run_started_at)) * 60

\* The durations loop: minutes of the runs whose duration is positive
PositiveDurations(rs) ==
    LET kept == SelectSeq(rs, LAMBDA r : calculate_duration(r) > 0)
    IN  [i \in 1..Len(kept) |-> calculate_duration(kept[i]) \div 60]


\* list.sort() on integers
InsertInt(sorted, x) ==
    LET n == Cardinality({i \in 1..Len(sorted) : sorted[i] <= x})
    IN  SubSeq(sorted, 1, n) \o <<x>> \o SubSeq(sorted, n + 1, Len(sorted))
RECURSIVE SortIntsFrom(_, _)
SortIntsFrom(acc, rest) ==
    IF rest = <<>> THEN acc ELSE SortIntsFrom(InsertInt(acc, Head(rest)), Tail(rest))
SortInts(s) == SortIntsFrom(<<>>, s)

\* x.get("updated_at", "")
StampKey(r) == IF r.updated_at = None THEN "" ELSE r.updated_at

\* runs.sort(key=lambda x: x.get("updated_at", "")): stable, ascending, on the strings
InsertByStamp(sorted, r) ==
    LET n == Cardinality({i \in 1..Len(sorted) :
                            StrRank(StampKey(sorted[i])) <= StrRank(StampKey(r))})
    IN  SubSeq(sorted, 1, n) \o <<r>> \o SubSeq(sorted, n + 1, Len(sorted))
RECURSIVE SortByStampFrom(_, _)
SortByStampFrom(acc, rest) ==
    IF rest = <<>> THEN acc ELSE SortByStampFrom(InsertByStamp(acc, Head(rest)), Tail(rest))
SortOldestFirst(rs) == SortByStampFrom(<<>>, rs)

\* The inner loop of _calculate_mttr: index of the first success after position i
\* of the sorted list, 0 when there is none
NextSuccess(sorted, i) ==
    LET js == {j \in (i + 1)..Len(sorted) : IsSuccess(sorted[j])}
    IN  IF js = {} THEN 0 ELSE CHOOSE j \in js : \A k \in js : j <= k

\* _calculate_mttr.  raised: an isoparse call of the loop raises.  samples:
\* recovery_times, in minutes.  runs: the caller's list as the in-place sort leaves it.
calculate_mttr(rs) ==
    LET sorted == SortOldestFirst(rs)
        idx == [i \in 1..Len(sorted) |-> i]
        recovered == SelectSeq(idx, LAMBDA i : IsFailed(sorted[i]) /\ NextSuccess(sorted, i) # 0)
        raised == \E i \in 1..Len(sorted) :
                     /\ IsFailed(sorted[i])
                     /\ \/ ~Parseable(StampKey(sorted[i]))
                        \/ /\ NextSuccess(sorted, i) # 0
                           /\ ~Parseable(StampKey(sorted[NextSuccess(sorted, i)]))
    IN  [raised |-> raised,
         samples |-> IF raised THEN <<>>
                     ELSE [k \in 1..Len(recovered) |->
                             IsoParse(sorted[NextSuccess(sorted, recovered[k])].updated_at)
                             - IsoParse(sorted[recovered[k]].updated_at)],
         runs |-> sorted]

\* sum(xs) / len(xs) if xs else 0.0, rounded to 2 decimals
MeanRound2(xs) == IF xs = <<>> THEN 0 ELSE Round2(SumSeq(xs), Len(xs))

\* max(counts.items(), key=lambda x: x[1])[0] over the keys in iteration order:
\* the most frequent key, the first inserted one among equals; "" for no key
MostActive(keys) ==
    IF keys = <<>> THEN ""
    ELSE LET Count(k) == Cardinality({i \in 1..Len(keys) : keys[i] = k})
             First(k) == CHOOSE i \in 1..Len(keys) :
                            keys[i] = k /\ \A j \in 1..(i - 1) : keys[j] # k
             best == CHOOSE i \in 1..Len(keys) :
                        /\ First(keys[i]) = i
                        /\ \A j \in 1..Len(keys) :
                              \/ Count(keys[j]) < Count(keys[i])
                              \/ Count(keys[j]) = Count(keys[i]) /\ First(keys[j]) >= i
         IN  keys[best]

\* run.get("head_branch", "unknown") and the author name with its "unknown" default
BranchOf(r) == IF r.head_branch = None THEN "unknown" ELSE r.head_branch
AuthorOf(r) == IF r.author = None THEN "unknown" ELSE r.author

\* run.get("head_sha", "")[:7] on the one-character commit ids in use
ShortSha(r) == IF r.head_sha = None THEN "" ELSE r.head_sha

\* The except branch of every request handler: HTTPException(status_code=500)
Http500 == [status |-> 500]

\* GET /analytics/overview
get_analytics_overview(api_runs, lookback_days) ==
    LET lookback_minutes == lookback_days * DayMinutes
        rs == get_recent_runs(api_runs, lookback_minutes, TRUE)
        ci_cd_runs == filter_ci_cd_runs(rs, TRUE)
        completed_runs == SelectSeq(ci_cd_runs, IsCompleted)
        successful_runs == SelectSeq(completed_runs, IsSuccess)
        durations == PositiveDurations(completed_runs)
        m == calculate_mttr(completed_runs)
        \* the activity loop reads completed_runs after _calculate_mttr sorted it
        after == m.runs
    IN  IF completed_runs = <<>>
        THEN [status |-> 200, total_builds |-> 0, success_rate |-> 0, failure_rate |-> 0,
              average_duration_minutes |-> 0, mttr_minutes |-> 0, builds_per_day |-> 0,
              most_active_branch |-> "", most_active_author |-> "",
              period_days |-> lookback_days]
        ELSE IF m.raised THEN Http500
        ELSE [status |-> 200,
              total_builds |-> Len(completed_runs),
              success_rate |-> Round2(100 * Len(successful_runs), Len(completed_runs)),
              failure_rate |-> Round2(100 * (Len(completed_runs) - Len(successful_runs)),
                                      Len(completed_runs)),
              average_duration_minutes |-> MeanRound2(durations),
              mttr_minutes |-> MeanRound2(m.samples),
              builds_per_day |-> Round2(Len(completed_runs), lookback_days),
              most_active_branch |-> MostActive([i \in 1..Len(after) |-> BranchOf(after[i])]),
              most_active_author |-> MostActive([i \in 1..Len(after) |-> AuthorOf(after[i])]),
              period_days |-> lookback_days]

\* completed_runs.sort(key=lambda x: x.get("updated_at", ""), reverse=True): stable,
\* descending, on the strings
RECURSIVE SortNewestByStampFrom(_, _)
SortNewestByStampFrom(acc, rest) ==
    IF rest = <<>> THEN acc
    ELSE LET r == Head(rest)
             n == Cardinality({i \in 1..Len(acc) :
                                 StrRank(StampKey(acc[i])) >= StrRank(StampKey(r))})
         IN  SortNewestByStampFrom(SubSeq(acc, 1, n) \o <<r>> \o SubSeq(acc, n + 1, Len(acc)),
                                   Tail(rest))

\* GET /analytics/mttr.  completed_runs is sorted newest first, and then read as
\* the in-place sort of _calculate_mttr leaves it.
get_mttr_analysis(api_runs, lookback_days) ==
    LET lookback_minutes == lookback_days * DayMinutes
        rs == get_recent_runs(api_runs, lookback_minutes, TRUE)
        ci_cd_runs == filter_ci_cd_runs(rs, TRUE)
        newest_first == SortNewestByStampFrom(<<>>, SelectSeq(ci_cd_runs, IsCompleted))
        overall == calculate_mttr(newest_first)
        completed_runs == overall.runs
        unparseable == \E i \in 1..Len(completed_runs) :
                          ~Parseable(StampKey(completed_runs[i]))
        WeekRuns(week) ==
            SelectSeq(completed_runs, LAMBDA run :
                /\ Now - (week + 1) * WeekMinutes <= IsoParse(run.updated_at)
                /\ IsoParse(run.updated_at) <= Now - week * WeekMinutes)
        failed_runs == SelectSeq(completed_runs, IsFailed)
        last10 == Take(failed_runs, 10)
        Recovery(failure) ==
            LET js == {j \in 1..Len(completed_runs) :
                          /\ IsSuccess(completed_runs[j])
                          /\ IsoParse(completed_runs[j].updated_at)
                                 > IsoParse(failure.updated_at)}
            IN  IF js = {} THEN None
                ELSE completed_runs[CHOOSE j \in js : \A k \in js : j <= k].updated_at
    IN  IF overall.raised \/ unparseable THEN Http500
        ELSE [status |-> 200,
              overall_mttr_minutes |-> MeanRound2(overall.samples),
              weekly_mttr |->
                  [w \in 1..4 |->
                      [timestamp |-> Now - w * WeekMinutes,
                       value |-> MeanRound2(calculate_mttr(WeekRuns(w - 1)).samples)]],
              failure_incidents |->
                  [i \in 1..Len(last10) |->
                      [failure_time |-> last10[i].updated_at,
                       recovery_time |-> Recovery(last10[i]),
                       recovery_minutes |->
                           IF Recovery(last10[i]) = None THEN 0
                           ELSE 100 * (IsoParse(Recovery(last10[i]))
                                       - IsoParse(last10[i].updated_at)),
                       branch |-> last10[i].head_branch,
                       commit_sha |-> ShortSha(last10[i])]],
              total_failures |-> Len(failed_runs),
              period_days |-> lookback_days]

\* run_time.strftime("%Y-%m-%d") and datetime.now(timezone.utc).date(), as day numbers
DayOf(minutes) == minutes \div DayMinutes
Today == DayOf(Now)

\* _group_runs_by_time(runs, "daily")[date]: the runs of that day, the runs whose
\* updated_at does not parse being skipped
DayRuns(rs, day) ==
    SelectSeq(rs, LAMBDA r : Parseable(StampKey(r)) /\ DayOf(IsoParse(r.updated_at)) = day)

\* _get_duration_trend: one entry per day of the lookback, oldest first
get_duration_trend(rs, lookback_days) ==
    [k \in 1..lookback_days |->
        LET day == Today - lookback_days + k
        IN  [timestamp |-> day, value |-> MeanRound2(PositiveDurations(DayRuns(rs, day)))]]

\* runs_with_duration.sort(key=duration, reverse=True): stable, descending
InsertSlowest(sorted, r) ==
    LET n == Cardinality({i \in 1..Len(sorted) :
                            calculate_duration(sorted[i]) >= calculate_duration(r)})
    IN  SubSeq(sorted, 1, n) \o <<r>> \o SubSeq(sorted, n + 1, Len(sorted))
RECURSIVE SortSlowestFrom(_, _)
SortSlowestFrom(acc, rest) ==
    IF rest = <<>> THEN acc ELSE SortSlowestFrom(InsertSlowest(acc, Head(rest)), Tail(rest))
SortSlowestFirst(rs) == SortSlowestFrom(<<>>, rs)

\* The index of the 90th percentile, were that the one reported
P95Index_P90(n) == (n * 90) \div 100

\* int(len(durations) * 0.95); the float product truncates to the integer quotient
\* for every length a page of runs can have
P95Index(n) == (n * 95) \div 100

\* GET /analytics/performance
get_performance_metrics(api_runs, lookback_days) ==
    LET lookback_minutes == lookback_days * DayMinutes
        rs == get_recent_runs(api_runs, lookback_minutes, TRUE)
        ci_cd_runs == filter_ci_cd_runs(rs, TRUE)
        completed_runs == SelectSeq(ci_cd_runs, IsCompleted)
        durations == SortInts(PositiveDurations(completed_runs))
        n == Len(durations)
        p95_index == P95Index(n)
        slowest == Take(SortSlowestFirst(completed_runs), 5)
    IN  IF durations = <<>>
        THEN [status |-> 200, average_duration_minutes |-> 0, median_duration_minutes |-> 0,
              p95_duration_minutes |-> 0, fastest_build_minutes |-> 0,
              slowest_build_minutes |-> 0, duration_trend |-> <<>>, bottlenecks |-> <<>>,
              period_days |-> lookback_days]
        ELSE [status |-> 200,
              average_duration_minutes |-> MeanRound2(durations),
              median_duration_minutes |-> 100 * durations[(n \div 2) + 1],
              p95_duration_minutes |->
                  100 * (IF p95_index < n THEN durations[p95_index + 1] ELSE durations[n]),
              fastest_build_minutes |-> 100 * SeqMin(durations),
              slowest_build_minutes |-> 100 * SeqMax(durations),
              duration_trend |-> get_duration_trend(completed_runs, lookback_days),
              bottlenecks |->
                  [i \in 1..Len(slowest) |->
                      [duration_minutes |-> Round2(calculate_duration(slowest[i]), 60),
                       branch |-> slowest[i].head_branch,
                       commit_sha |-> ShortSha(slowest[i]),
                       completed_at |-> slowest[i].updated_at]],
              period_days |-> lookback_days]

\* Keys of a dict filled in list order: the indices of the first occurrences
FirstOccurrences(keys) ==
    SelectSeq([i \in 1..Len(keys) |-> i],
              LAMBDA i : \A j \in 1..(i - 1) : keys[j] # keys[i])

\* datetime.weekday(), Monday being 0; day number 0 is taken to be a Monday
Weekday(day) == day % 7

\* The period_key of _group_runs_by_time, as a number: the hour, the day, or the
\* day of the Monday of the week
PeriodKey(minutes, granularity) ==
    CASE granularity = "hourly" -> minutes \div 60
      [] granularity = "weekly" -> DayOf(minutes) - Weekday(DayOf(minutes))
      [] OTHER -> DayOf(minutes)

\* _group_runs_by_time(runs, granularity): the keys in insertion order, and the
\* runs of a key; a run whose updated_at does not parse is skipped
GroupKeys(rs, granularity) ==
    LET grouped == SelectSeq(rs, LAMBDA r : Parseable(StampKey(r)))
        keys == [i \in 1..Len(grouped) |-> PeriodKey(IsoParse(grouped[i].updated_at), granularity)]
        firsts == FirstOccurrences(keys)
    IN  [k \in 1..Len(firsts) |-> keys[firsts[k]]]
GroupRuns(rs, granularity, period) ==
    SelectSeq(rs, LAMBDA r :
        Parseable(StampKey(r)) /\ PeriodKey(IsoParse(r.updated_at), granularity) = period)

\* GET /analytics/trends.  The values of success_trend and failure_trend are
\* counts, those of duration_trend are hundredths of minutes.
get_build_trends(api_runs, lookback_days, granularity) ==
    LET lookback_minutes == lookback_days * DayMinutes
        rs == get_recent_runs(api_runs, lookback_minutes, TRUE)
        ci_cd_runs == filter_ci_cd_runs(rs, TRUE)
        periods == GroupKeys(ci_cd_runs, granularity)
        Completed(k) == SelectSeq(GroupRuns(ci_cd_runs, granularity, periods[k]), IsCompleted)
    IN  [status |-> 200,
         success_trend |->
             [k \in 1..Len(periods) |->
                 [timestamp |-> periods[k], value |-> Len(SelectSeq(Completed(k), IsSuccess))]],
         failure_trend |->
             [k \in 1..Len(periods) |->
                 [timestamp |-> periods[k], value |-> Len(SelectSeq(Completed(k), IsFailed))]],
         duration_trend |->
             [k \in 1..Len(periods) |->
                 [timestamp |-> periods[k],
                  value |-> MeanRound2(PositiveDurations(Completed(k)))]],
         granularity |-> granularity,
         period_days |-> lookback_days]

\* _get_failure_trend: one entry per day of the lookback, oldest first
get_failure_trend(rs, lookback_days) ==
    [k \in 1..lookback_days |->
        LET day == Today - lookback_days + k
        IN  [timestamp |-> day, value |-> Len(SelectSeq(DayRuns(rs, day), IsFailed))]]

\* The sort as it would be without reverse=True: ascending
InsertByRate_Ascending(sorted, e) ==
    LET n == Cardinality({i \in 1..Len(sorted) : sorted[i].failure_rate <= e.failure_rate})
    IN  SubSeq(sorted, 1, n) \o <<e>> \o SubSeq(sorted, n + 1, Len(sorted))

\* failure_by_branch.sort(key=failure_rate, reverse=True): stable, descending
InsertByRate(sorted, e) ==
    LET n == Cardinality({i \in 1..Len(sorted) : sorted[i].failure_rate >= e.failure_rate})
    IN  SubSeq(sorted, 1, n) \o <<e>> \o SubSeq(sorted, n + 1, Len(sorted))
RECURSIVE SortByRateFrom(_, _)
SortByRateFrom(acc, rest) ==
    IF rest = <<>> THEN acc ELSE SortByRateFrom(InsertByRate(acc, Head(rest)), Tail(rest))

\* The failure patterns of get_failure_analysis by branch or by author: keys[i] is
\* the key of completed[i]; one entry per key, highest failure rate first, top 10
FailureBy(keys, completed) ==
    LET firsts == FirstOccurrences(keys)
        Total(key) == Cardinality({j \in 1..Len(keys) : keys[j] = key})
        Failures(key) ==
            Cardinality({j \in 1..Len(keys) : keys[j] = key /\ IsFailed(completed[j])})
        entries == [k \in 1..Len(firsts) |->
                      [key |-> keys[firsts[k]],
                       total_builds |-> Total(keys[firsts[k]]),
                       failures |-> Failures(keys[firsts[k]]),
                       failure_rate |-> Round2(100 * Failures(keys[firsts[k]]),
                                               Total(keys[firsts[k]]))]]
    IN  Take(SortByRateFrom(<<>>, entries), 10)

\* GET /analytics/failures
get_failure_analysis(api_runs, lookback_days) ==
    LET lookback_minutes == lookback_days * DayMinutes
        rs == get_recent_runs(api_runs, lookback_minutes, TRUE)
        ci_cd_runs == filter_ci_cd_runs(rs, TRUE)
        completed_runs == SelectSeq(ci_cd_runs, IsCompleted)
        failed_runs == SelectSeq(completed_runs, IsFailed)
        recent == Take(failed_runs, 10)
    IN  [status |-> 200,
         total_failures |-> Len(failed_runs),
         failure_rate |-> IF completed_runs # <<>>
                          THEN Round2(100 * Len(failed_runs), Len(completed_runs)) ELSE 0,
         failure_by_branch |->
             FailureBy([i \in 1..Len(completed_runs) |-> BranchOf(completed_runs[i])],
                       completed_runs),
         failure_by_author |->
             FailureBy([i \in 1..Len(completed_runs) |-> AuthorOf(completed_runs[i])],
                       completed_runs),
         recent_failures |->
             [i \in 1..Len(recent) |->
                 [conclusion |-> recent[i].conclusion,
                  branch |-> recent[i].head_branch,
                  commit_sha |-> ShortSha(recent[i]),
                  failed_at |-> recent[i].updated_at,
                  duration_minutes |-> Round2(calculate_duration(recent[i]), 60)]],
         failure_trend |-> get_failure_trend(completed_runs, lookback_days),
         period_days |-> lookback_days]

---------------------------------------------------------------------------
(* api/routers/pipeline.py *)

calculate_success_rate(rs) ==
    LET completed_runs == SelectSeq(rs, IsCompleted)
    IN  IF rs = <<>> THEN 0
        ELSE IF completed_runs = <<>> THEN 0
        ELSE Round2(100 * Len(SelectSeq(completed_runs, IsSuccess)), Len(completed_runs))

\* completed_runs.sort(key=updated_at string, reverse=True)[0]: the first of the
\* runs with the greatest key
LatestRun(rs) ==
    rs[CHOOSE i \in 1..Len(rs) :
          /\ \A j \in 1..Len(rs) : StrRank(StampKey(rs[j])) <= StrRank(StampKey(rs[i]))
          /\ \A j \in 1..(i - 1) : StrRank(StampKey(rs[j])) < StrRank(StampKey(rs[i]))]

get_pipeline_status(rs) ==
    LET completed_runs == SelectSeq(rs, IsCompleted)
    IN  IF rs = <<>> THEN "idle"
        ELSE IF \E i \in 1..Len(rs) : rs[i].status \in {"in_progress", "queued"} THEN "running"
        ELSE IF completed_runs = <<>> THEN "idle"
        ELSE LET conclusion == LatestRun(completed_runs).conclusion
             IN  CASE conclusion = "success" -> "success"
                   [] conclusion \in {"failure", "timed_out"} -> "failed"
                   [] conclusion = "cancelled" -> "cancelled"
                   [] OTHER -> "idle"

\* GET /pipeline/overview
get_pipeline_overview(api_runs, lookback_minutes) ==
    LET recent_runs == get_recent_runs(api_runs, lookback_minutes, TRUE)
        all_runs == Take(api_runs, 50)
        ci_cd_runs == filter_ci_cd_runs(recent_runs, TRUE)
        all_ci_cd_runs == filter_ci_cd_runs(all_runs, TRUE)
        success_rate == calculate_success_rate(ci_cd_runs)
        queued_runs == SelectSeq(all_ci_cd_runs, LAMBDA r : r.status = "queued")
        in_progress_runs == SelectSeq(all_ci_cd_runs, LAMBDA r : r.status = "in_progress")
        deployment_runs ==
            Take(SelectSeq(ci_cd_runs, LAMBDA r : IsSuccess(r) /\ r.head_branch = "main"), 5)
    IN  [status |-> 200,
         pipeline_status |-> get_pipeline_status(Take(all_ci_cd_runs, 10)),
         success_rate |-> success_rate,
         failure_rate |-> IF ci_cd_runs # <<>> THEN 10000 - success_rate ELSE 0,
         queued_count |-> Len(queued_runs),
         running_count |-> Len(in_progress_runs),
         estimated_wait_time |-> Len(queued_runs) * 5,
         recent_deployments |->
             [i \in 1..Len(deployment_runs) |->
                 [commit_sha |-> ShortSha(deployment_runs[i]),
                  deployed_at |-> deployment_runs[i].updated_at,
                  duration_seconds |-> calculate_duration(deployment_runs[i])]],
         current_build |->
             IF in_progress_runs = <<>> THEN PyNone
             ELSE [py |-> "dict", commit_sha |-> ShortSha(in_progress_runs[1]),
                   branch |-> in_progress_runs[1].head_branch],
         total_runs_analyzed |-> Len(ci_cd_runs)]

\* GET /pipeline/metrics
get_pipeline_metrics(api_runs, lookback_minutes) ==
    LET rs == get_recent_runs(api_runs, lookback_minutes, TRUE)
        ci_cd_runs == filter_ci_cd_runs(rs, TRUE)
        completed_runs == SelectSeq(ci_cd_runs, IsCompleted)
        durations == PositiveDurations(completed_runs)
    IN  IF completed_runs = <<>>
        THEN [status |-> 200, total_runs |-> 0, success_count |-> 0, failure_count |-> 0,
              success_rate |-> 0, average_duration_minutes |-> 0,
              fastest_build_minutes |-> 0, slowest_build_minutes |-> 0,
              builds_per_day |-> 0]
        ELSE [status |-> 200,
              total_runs |-> Len(completed_runs),
              success_count |-> Len(SelectSeq(completed_runs, IsSuccess)),
              failure_count |-> Len(SelectSeq(completed_runs, IsFailed)),
              success_rate |-> calculate_success_rate(completed_runs),
              average_duration_minutes |-> MeanRound2(durations),
              fastest_build_minutes |-> IF durations = <<>> THEN 0 ELSE 100 * SeqMin(durations),
              slowest_build_minutes |-> IF durations = <<>> THEN 0 ELSE 100 * SeqMax(durations),
              \* len(completed_runs) / (lookback_minutes / (24 * 60))
              builds_per_day |-> Round2(Len(completed_runs) * DayMinutes, lookback_minutes)]

---------------------------------------------------------------------------
(* monitor/monitor.py: the poll job *)

\* _parse_ts(ts) is not None: ts is truthy and isoparse accepts it
ParsesOk(ts) == Truthy(ts) /\ Parseable(ts)

\* within_lookback, called on a string isoparse accepts
within_lookback(iso_ts, minutes) == (Now - IsoParse(iso_ts)) <= minutes

\* The name test of analyze: r.get("name") not in ["Monitor Workflows", "monitor", "Monitor"]
NotMonitorWorkflow(r) == r.name \notin {NameMonitorWorkflows, KwMonitor, NameMonitor}

\* The sort key of analyze: _parse_ts(updated_at) or datetime.min, datetime.min
\* being below every timestamp
NewestKey(r) == IF ParsesOk(r.updated_at) THEN IsoParse(r.updated_at) ELSE 0 - 1

\* ci_cd_runs.sort(key=..., reverse=True): descending, and stable (Python keeps the
\* original order of equal keys under reverse=True)
InsertNewest(sorted, r) ==
    LET n == Cardinality({i \in 1..Len(sorted) : NewestKey(sorted[i]) >= NewestKey(r)})
    IN  SubSeq(sorted, 1, n) \o <<r>> \o SubSeq(sorted, n + 1, Len(sorted))
RECURSIVE SortNewestFrom(_, _)
SortNewestFrom(acc, rest) ==
    IF rest = <<>> THEN acc ELSE SortNewestFrom(InsertNewest(acc, Head(rest)), Tail(rest))
\* Mutant: the sort without reverse=True (oldest first)
SortNewestFirst_Ascending(rs) ==
    LET Reverse(q) == [i \in 1..Len(q) |-> q[Len(q) + 1 - i]]
    IN  Reverse(SortNewestFrom(<<>>, Reverse(rs)))
\* Mutant: a descending sort that is not stable (sorted ascending, then reversed)
SortNewestFirst_Unstable(rs) ==
    LET Reverse(q) == [i \in 1..Len(q) |-> q[Len(q) + 1 - i]]
        asc == Reverse(SortNewestFrom(<<>>, Reverse(rs)))
    IN  Reverse(asc)
SortNewestFirst(rs) == SortNewestFrom(<<>>, rs)

\* Mutant: the loop below without "sha not in latest_by_sha": a later run of a
\* commit replaces the kept one, at the position of the first
KeepFirstPerSha_Overwrite(sorted) ==
    LET idx == [i \in 1..Len(sorted) |-> i]
        kept == SelectSeq(idx, LAMBDA i :
                    /\ Truthy(sorted[i].head_sha)
                    /\ \A j \in 1..(i - 1) : sorted[j].head_sha # sorted[i].head_sha)
        LastOf(sha) == CHOOSE i \in 1..Len(sorted) :
                          /\ sorted[i].head_sha = sha
                          /\ \A j \in (i + 1)..Len(sorted) : sorted[j].head_sha # sha
    IN  [k \in 1..Len(kept) |-> sorted[LastOf(sorted[kept[k]].head_sha)]]
\* The latest_by_sha loop and list(latest_by_sha.values()): in list order, the first
\* run of every truthy head_sha
KeepFirstPerSha(sorted) ==
    LET idx == [i \in 1..Len(sorted) |-> i]
        kept == SelectSeq(idx, LAMBDA i :
                    /\ Truthy(sorted[i].head_sha)
                    /\ \A j \in 1..(i - 1) : sorted[j].head_sha # sorted[i].head_sha)
    IN  [k \in 1..Len(kept) |-> sorted[kept[k]]]

\* Step 2 of analyze: sort newest first, keep the latest run per commit
Dedupe(rs) == KeepFirstPerSha(SortNewestFirst(rs))

\* failure_states of analyze
FailureStates(include_cancelled) ==
    {"failure", "timed_out"} \cup (IF include_cancelled THEN {"cancelled"} ELSE {})

\* Step 8 of analyze: one sample per failure that a strictly later success follows
PollRecoveryTimes(completed, failure_states) ==
    LET idx == [i \in 1..Len(completed) |-> i]
        Later(i) == {j \in 1..Len(completed) :
                        /\ IsSuccess(completed[j])
                        /\ ParsesOk(completed[j].updated_at)
                        /\ IsoParse(completed[j].updated_at) > IsoParse(completed[i].updated_at)}
        recovered == SelectSeq(idx, LAMBDA i :
                        /\ completed[i].conclusion \in failure_states
                        /\ ParsesOk(completed[i].updated_at)
                        /\ Later(i) # {})
    IN  [k \in 1..Len(recovered) |->
            LET stime == CHOOSE t \in {IsoParse(completed[j].updated_at) : j \in Later(recovered[k])} :
                            \A j \in Later(recovered[k]) : t <= IsoParse(completed[j].updated_at)
            IN  stime - IsoParse(completed[recovered[k]].updated_at)]

\* Step 7 of analyze: durations in minutes of the completed runs with both timestamps
PollDurations(completed) ==
    LET timed == SelectSeq(completed, LAMBDA r :
                    ParsesOk(r.run_started_at) /\ ParsesOk(r.updated_at))
    IN  [i \in 1..Len(timed) |-> IsoParse(timed[i].updated_at) - IsoParse(timed[i].run_started_at)]

\* round(sum(xs) / len(xs) / 60.0, 2) if xs else None, xs being in minutes here
OptMeanRound2(xs) == IF xs = <<>> THEN PyNone ELSE PyNum(Round2(SumSeq(xs), Len(xs)))

\* analyze(runs): its locals and the dict it returns (metrics)
analyze(rs, lookback_minutes, include_cancelled) ==
    LET cutoff == Now - lookback_minutes
        named == SelectSeq(rs, NotMonitorWorkflow)
        ci_cd_runs == SelectSeq(named, LAMBDA r :
                         ParsesOk(r.updated_at) /\ IsoParse(r.updated_at) >= cutoff)
        deduped == Dedupe(ci_cd_runs)
        subset == Take(deduped, 30)
        completed == SelectSeq(subset, IsCompleted)
        successes == SelectSeq(completed, IsSuccess)
        failure_states == FailureStates(include_cancelled)
        failures == SelectSeq(completed, LAMBDA r : r.conclusion \in failure_states)
    IN  [ci_cd_runs |-> ci_cd_runs,
         deduped |-> deduped,
         completed |-> completed,
         metrics |->
            IF subset = <<>>
            THEN [window |-> 0, successes |-> 0, failures |-> 0,
                  avg_duration_min |-> PyNone, mttr_min |-> PyNone]
            ELSE [window |-> Len(completed),
                  successes |-> Len(successes),
                  failures |-> Len(failures),
                  avg_duration_min |-> OptMeanRound2(PollDurations(completed)),
                  mttr_min |-> OptMeanRound2(PollRecoveryTimes(completed, failure_states))]]

\* The alert selection of main: the test of the list comprehension
AlertCandidate(r) ==
    /\ r.status = "completed"
    /\ r.conclusion \in {"failure", "timed_out", "cancelled"}
    /\ Truthy(r.updated_at)

\* str.splitlines() on the one-line texts in use: no line for the empty string
SplitLines(text) == IF text = "" THEN <<>> ELSE <<text>>

\* format_failure_block(run).  raised: splitlines()[0] finds no line (IndexError).
format_failure_block(run) ==
    LET name == IF run.name # <<>> THEN run.name ELSE NameWorkflow
        message_lines == SplitLines(IF Truthy(run.message) THEN run.message ELSE "")
        author == IF Truthy(run.author) THEN run.author ELSE "unknown"
    IN  IF message_lines = <<>>
        THEN [raised |-> TRUE, blocks |-> <<>>]
        ELSE [raised |-> FALSE,
              blocks |->
                  <<[type |-> "section", name |-> name, branch |-> run.head_branch,
                     sha |-> ShortSha(run)],
                    [type |-> "context", conclusion |-> run.conclusion, by |-> author,
                     when |-> run.updated_at],
                    [type |-> "section", commit |-> message_lines[1]],
                    [type |-> "divider"]>>]

\* What the webhook does with one POST: it accepts it, answers with an HTTP error
\* status, or the request fails below HTTP (connection error, timeout)
WebhookOutcomes == {"ok", "http_error", "exception"}

\* A slack_post that lets the failure of the POST escape
slack_post_Reraise(outcome) == [raised |-> outcome # "ok", delivered |-> outcome = "ok"]
\* slack_post: both except branches print and return, so the call never raises
slack_post(outcome) == [raised |-> FALSE, delivered |-> outcome = "ok"]

RECURSIVE Flatten(_)
\* blocks.extend(...) over the failures: the concatenation of the block lists
Flatten(lists) == IF lists = <<>> THEN <<>> ELSE Head(lists) \o Flatten(Tail(lists))

\* main().  raised: an exception ends the job, error naming the call it left:
\* within_lookback's isoparse on a candidate, format_failure_block, or slack_post.
\* posts: the slack_post calls made, in order, each with what the webhook did.
main(api_runs, lookback_minutes, include_cancelled, send_analytics, alert_outcome, digest_outcome) ==
    LET fetched == Take(api_runs, 50)
        select_raised == \E i \in 1..Len(fetched) :
                            AlertCandidate(fetched[i]) /\ ~Parseable(fetched[i].updated_at)
        failures == SelectSeq(fetched, LAMBDA r :
                       AlertCandidate(r) /\ within_lookback(r.updated_at, lookback_minutes))
        formatted == [i \in 1..Len(failures) |-> format_failure_block(failures[i])]
        format_raised == \E i \in 1..Len(failures) : formatted[i].raised
        alert == [kind |-> "alert", count |-> Len(failures),
                  blocks |-> Flatten([i \in 1..Len(failures) |-> formatted[i].blocks]),
                  outcome |-> alert_outcome]
        alert_posts == IF failures # <<>> THEN <<alert>> ELSE <<>>
        alert_raised == failures # <<>> /\ slack_post(alert_outcome).raised
        a == analyze(fetched, lookback_minutes, include_cancelled)
        digest == [kind |-> "digest", metrics |-> a.metrics, outcome |-> digest_outcome]
        digest_raised == send_analytics /\ slack_post(digest_outcome).raised
    IN  IF select_raised
        THEN [raised |-> TRUE, error |-> "within_lookback", analysed |-> FALSE, posts |-> <<>>]
        ELSE IF format_raised
        THEN [raised |-> TRUE, error |-> "format_failure_block", analysed |-> FALSE,
              posts |-> <<>>]
        ELSE IF alert_raised
        THEN [raised |-> TRUE, error |-> "slack_post", analysed |-> FALSE,
              posts |-> alert_posts]
        ELSE [raised |-> digest_raised,
              error |-> IF digest_raised THEN "slack_post" ELSE "",
              analysed |-> send_analytics,
              failures |-> failures,
              posts |-> alert_posts \o (IF send_analytics THEN <<digest>> ELSE <<>>),
              locals |-> IF send_analytics THEN a ELSE PyNone]

---------------------------------------------------------------------------
(* Notifications (api/routers/notifications.py)                            *)
(* A rule is a record of the NotificationRule fields.  The module is       *)
(* loaded at the instant of stamp "T0" and every request is handled at the *)
(* instant of stamp "T2": these are the readings of datetime.now() kept in *)
(* created_at and updated_at.  The sent_at of a history entry is left out. *)
(* An Optional field of an update is PyNone or Given(value).               *)

Given(v) == [py |-> "value", val |-> v]

OrExisting(field, existing) == IF field = PyNone THEN existing ELSE field.val

BranchMain == [type |-> "branch", value |-> "main"]

\* The rules the module holds once it is loaded
initialize_default_rules ==
    << [id |-> 1, name |-> "Build Failures", description |-> "Notify on build failures",
        trigger_events |-> <<"build_failed", "build_timeout">>,
        conditions |-> <<BranchMain>>, channels |-> <<"slack">>, enabled |-> TRUE,
        created_at |-> "T0", updated_at |-> "T0"],
       [id |-> 2, name |-> "Deployment Success",
        description |-> "Notify on successful deployments",
        trigger_events |-> <<"deployment_success">>,
        conditions |-> <<BranchMain>>, channels |-> <<"slack">>, enabled |-> TRUE,
        created_at |-> "T0", updated_at |-> "T0"] >>

\* Index of the first rule with this id, 0 when there is none (rule_index is None)
RECURSIVE RuleIndexFrom(_, _, _)
RuleIndexFrom(rules, rule_id, i) ==
    IF i > Len(rules) THEN 0
    ELSE IF rules[i].id = rule_id THEN i
    ELSE RuleIndexFrom(rules, rule_id, i + 1)

RuleIndex(rules, rule_id) == RuleIndexFrom(rules, rule_id, 1)

\* POST /rules as it would act on a stale copy of the list: the new rule takes the
\* place of the rule appended last
create_notification_rule_Stale(rules, rule) ==
    LET stale == IF rules = <<>> THEN rules ELSE SubSeq(rules, 1, Len(rules) - 1)
        new_rule == [id |-> Len(stale) + 1, name |-> rule.name,
                     description |-> rule.description,
                     trigger_events |-> rule.trigger_events,
                     conditions |-> rule.conditions, channels |-> rule.channels,
                     enabled |-> rule.enabled, created_at |-> "T2", updated_at |-> "T2"]
    IN  [rules |-> Append(stale, new_rule),
         body |-> [status |-> 200, rule |-> new_rule]]

\* POST /rules: the lists after the handler, and its response
create_notification_rule(rules, rule) ==
    LET new_rule == [id |-> Len(rules) + 1, name |-> rule.name,
                     description |-> rule.description,
                     trigger_events |-> rule.trigger_events,
                     conditions |-> rule.conditions, channels |-> rule.channels,
                     enabled |-> rule.enabled, created_at |-> "T2", updated_at |-> "T2"]
    IN  [rules |-> Append(rules, new_rule),
         body |-> [status |-> 200, rule |-> new_rule]]

\* PUT /rules/{rule_id} as it would act if it built the rule anew: created_at is
\* the instant of the update
update_notification_rule_Recreated(rules, rule_id, rule_update) ==
    LET rule_index == RuleIndex(rules, rule_id)
        existing_rule == rules[rule_index]
        updated_rule ==
            [id |-> existing_rule.id,
             name |-> OrExisting(rule_update.name, existing_rule.name),
             description |-> OrExisting(rule_update.description, existing_rule.description),
             trigger_events |-> OrExisting(rule_update.trigger_events,
                                           existing_rule.trigger_events),
             conditions |-> OrExisting(rule_update.conditions, existing_rule.conditions),
             channels |-> OrExisting(rule_update.channels, existing_rule.channels),
             enabled |-> OrExisting(rule_update.enabled, existing_rule.enabled),
             created_at |-> "T2", updated_at |-> "T2"]
    IN  IF rule_index = 0
        THEN [rules |-> rules, body |-> [status |-> 404, rule_id |-> rule_id]]
        ELSE [rules |-> [rules EXCEPT ![rule_index] = updated_rule],
              body |-> [status |-> 200, rule |-> updated_rule]]

\* PUT /rules/{rule_id}
update_notification_rule(rules, rule_id, rule_update) ==
    LET rule_index == RuleIndex(rules, rule_id)
        existing_rule == rules[rule_index]
        updated_rule ==
            [id |-> existing_rule.id,
             name |-> OrExisting(rule_update.name, existing_rule.name),
             description |-> OrExisting(rule_update.description, existing_rule.description),
             trigger_events |-> OrExisting(rule_update.trigger_events,
                                           existing_rule.trigger_events),
             conditions |-> OrExisting(rule_update.conditions, existing_rule.conditions),
             channels |-> OrExisting(rule_update.channels, existing_rule.channels),
             enabled |-> OrExisting(rule_update.enabled, existing_rule.enabled),
             created_at |-> existing_rule.created_at, updated_at |-> "T2"]
    IN  IF rule_index = 0
        THEN [rules |-> rules, body |-> [status |-> 404, rule_id |-> rule_id]]
        ELSE [rules |-> [rules EXCEPT ![rule_index] = updated_rule],
              body |-> [status |-> 200, rule |-> updated_rule]]

\* DELETE /rules/{rule_id}
delete_notification_rule(rules, rule_id) ==
    LET rule_index == RuleIndex(rules, rule_id)
    IN  IF rule_index = 0
        THEN [rules |-> rules, body |-> [status |-> 404, rule_id |-> rule_id]]
        ELSE [rules |-> SubSeq(rules, 1, rule_index - 1)
                          \o SubSeq(rules, rule_index + 1, Len(rules)),
              body |-> [status |-> 200, rule_id |-> rule_id]]

\* What the webhook does with a post: accept it, or fail it with a RequestException
SlackOutcomes == {"ok", "request_error"}

\* POST /slack/send with the webhook URL configured: the history after the handler
\* and its response.  A failed post is recorded too, and then reported as a 500.
send_slack_notification(history, notification, outcome) ==
    LET history_entry == [id |-> Len(history) + 1, rule_id |-> notification.rule_id,
                          channel |-> "slack",
                          recipient |-> IF Truthy(notification.channel)
                                        THEN notification.channel ELSE "default",
                          message |-> notification.text,
                          status |-> IF outcome = "ok" THEN "sent" ELSE "failed"]
    IN  [history |-> Append(history, history_entry),
         body |-> IF outcome = "ok"
                  THEN [status |-> 200, notification_id |-> history_entry.id]
                  ELSE [status |-> 500, notification_id |-> 0]]

\* A rule's conditions against the build of an event: branch and status conditions
\* must equal the build's value, any other condition type is not looked at
ConditionsMet(rule, build_data) ==
    \A i \in 1..Len(rule.conditions) :
        LET condition == rule.conditions[i]
        IN  /\ condition.type = "branch" => build_data.branch = condition.value
            /\ condition.type = "status" => build_data.status = condition.value

InSeq(x, s) == \E i \in 1..Len(s) : s[i] = x

\* The enabled rules the event triggers, in the order of the rule list
TriggeredRules(rules, event_type, build_data) ==
    SelectSeq(rules, LAMBDA rule : /\ rule.enabled
                                   /\ InSeq(event_type, rule.trigger_events)
                                   /\ ConditionsMet(rule, build_data))

\* The (rule, channel) pairs the sending loop acts on: only the "slack" channel
\* has a branch in the loop body
RECURSIVE SlackPairs(_)
SlackPairs(triggered_rules) ==
    IF triggered_rules = <<>> THEN <<>>
    ELSE LET rule == Head(triggered_rules)
         IN  [i \in 1..Len(SelectSeq(rule.channels, LAMBDA channel : channel = "slack")) |->
                 [rule |-> rule, channel |-> "slack"]]
             \o SlackPairs(Tail(triggered_rules))

\* The sending loop: one call of send_slack_notification per pair, each result or
\* failure noted in notifications_sent
RECURSIVE SendAll(_, _, _, _, _)
SendAll(history, pairs, event_type, outcome, notifications_sent) ==
    IF pairs = <<>> THEN [history |-> history, notifications_sent |-> notifications_sent]
    ELSE LET rule == Head(pairs).rule
             slack_notification == [text |-> <<"Pipeline event: ", event_type>>,
                                    rule_id |-> rule.id, channel |-> "automated"]
             result == send_slack_notification(history, slack_notification, outcome)
             entry == [rule_id |-> rule.id, channel |-> Head(pairs).channel,
                       status |-> IF result.body.status = 200 THEN "sent" ELSE "failed",
                       notification_id |-> result.body.notification_id]
         IN  SendAll(result.history, Tail(pairs), event_type, outcome,
                     Append(notifications_sent, entry))

\* POST /process/pipeline-event
process_pipeline_event(rules, history, event_type, build_data, outcome) ==
    LET triggered_rules == TriggeredRules(rules, event_type, build_data)
        sent == SendAll(history, SlackPairs(triggered_rules), event_type, outcome, <<>>)
    IN  [history |-> sent.history,
         body |-> [status |-> 200, event_type |-> event_type,
                   triggered_rules |-> Len(triggered_rules),
                   notifications_sent |-> sent.notifications_sent]]

---------------------------------------------------------------------------
(* The paging loop of GitHubClient.get_recent_runs                          *)
(* A page is known by its number of runs and by how many of them pass the  *)
(* time test; all_runs is the number of runs gathered so far.              *)

\* per_page of the requests, and the page ceiling of the loop
PerPage == 100
MaxPages == 5

\* Numbers of runs a page of the upstream API can hold: none, a short page, a full one
PageSizes == {0, 1, PerPage - 1, PerPage}

\* No call of get_recent_runs is under way
FetchIdle == [pc |-> "idle", page |-> 1, requested |-> <<>>, pages |-> <<>>, all_runs |-> 0]

\* The loop body as it would be without the test for a short page
get_recent_runs_page_NoShortStop(f, size, recent) ==
    LET served == [f EXCEPT !.pages = Append(@, [size |-> size, recent |-> recent])]
    IN  IF size = 0 THEN [served EXCEPT !.pc = "return"]
        ELSE [served EXCEPT !.all_runs = @ + recent, !.page = @ + 1,
                            !.pc = IF f.page + 1 <= MaxPages THEN "request" ELSE "return"]

\* The loop body once page f.page has been served with size runs, recent of them
\* within the lookback: up to the next request, or to the return
get_recent_runs_page(f, size, recent) ==
    LET served == [f EXCEPT !.pages = Append(@, [size |-> size, recent |-> recent])]
    IN  IF size = 0 THEN [served EXCEPT !.pc = "return"]
        ELSE IF size < PerPage
        THEN [served EXCEPT !.all_runs = @ + recent, !.pc = "return"]
        ELSE [served EXCEPT !.all_runs = @ + recent, !.page = @ + 1,
                            !.pc = IF f.page + 1 <= MaxPages THEN "request" ELSE "return"]

---------------------------------------------------------------------------
(* The websocket manager (api/core/websocket_manager.py)                    *)

\* The websocket objects: one per connection, never used again once closed
Sockets == 1..MaxSockets

\* No call of broadcast is under way
BroadcastIdle == [pc |-> "idle"]

\* Event types the send_*_update helpers broadcast with
WsEvents == {"builds", "pipeline"}

\* disconnect as it would act if it only took the websocket off the list
disconnect_KeepsEntry(m, websocket) ==
    LET conns == m.active_connections
        first == CHOOSE i \in 1..Len(conns) :
                     conns[i] = websocket /\ \A j \in 1..(i - 1) : conns[j] # websocket
    IN  [active_connections |->
             IF \E i \in 1..Len(conns) : conns[i] = websocket
             THEN SubSeq(conns, 1, first - 1) \o SubSeq(conns, first + 1, Len(conns))
             ELSE conns,
         subscriptions |-> m.subscriptions]

\* disconnect: m is the manager, its list and its dict; list.remove takes the
\* first occurrence away
disconnect(m, websocket) ==
    LET conns == m.active_connections
        first == CHOOSE i \in 1..Len(conns) :
                     conns[i] = websocket /\ \A j \in 1..(i - 1) : conns[j] # websocket
    IN  [active_connections |->
             IF \E i \in 1..Len(conns) : conns[i] = websocket
             THEN SubSeq(conns, 1, first - 1) \o SubSeq(conns, first + 1, Len(conns))
             ELSE conns,
         subscriptions |->
             IF websocket \in DOMAIN m.subscriptions
             THEN [w \in DOMAIN m.subscriptions \ {websocket} |-> m.subscriptions[w]]
             ELSE m.subscriptions]

\* The clean-up loop at the end of broadcast
RECURSIVE disconnect_each(_, _)
disconnect_each(m, disconnected) ==
    IF disconnected = <<>> THEN m
    ELSE disconnect_each(disconnect(m, Head(disconnected)), Tail(disconnected))

\* The loop of broadcast from position i of the list up to its next await: the
\* iterator of a Python list is a position in the list as it is now, and the loop
\* ends when the position is past the end.  b is the call: its event_type, the
\* position and the websocket of the send under way, the websockets whose send
\* raised (disconnected), the websockets whose send returned (delivered), and
\* the websockets that were connected and subscribed when the call began.
RECURSIVE broadcast_from(_, _, _)
broadcast_from(m, b, i) ==
    IF i > Len(m.active_connections)
    THEN [m |-> disconnect_each(m, b.disconnected),
          b |-> [b EXCEPT !.pc = "done", !.index = 0, !.target = 0]]
    ELSE LET websocket == m.active_connections[i]
         IN  IF /\ Truthy(b.event_type)
                /\ websocket \in DOMAIN m.subscriptions
                /\ b.event_type \notin m.subscriptions[websocket]
             THEN broadcast_from(m, b, i + 1)
             ELSE [m |-> m, b |-> [b EXCEPT !.pc = "send", !.index = i, !.target = websocket]]

---------------------------------------------------------------------------
(* The state machine *)

\* lookback_days of the analytics endpoints (1..30 and 7..90 are accepted)
LookbackDays == {7, 14}
\* granularity of GET /analytics/trends
Granularities == {"hourly", "daily", "weekly"}
\* lookback_minutes of GET /pipeline/overview (1..1440 is accepted)
OverviewLookbacks == {60}
\* lookback_minutes of GET /pipeline/metrics (60..10080 is accepted)
MetricsLookbacks == {DayMinutes, WeekMinutes}
\* LOOKBACK_MINUTES of the poll job's environment
PollLookbacks == {WeekMinutes, 2 * WeekMinutes}

Init ==
    /\ runs = <<>>
    /\ op = "idle"
    /\ resp = PyNone
    /\ notification_rules = initialize_default_rules
    /\ notification_history = <<>>
    /\ fetch = FetchIdle
    /\ active_connections = <<>>
    /\ subscriptions = [w \in {} |-> {}]
    /\ endpoints = [w \in Sockets |-> "new"]
    /\ broadcast = BroadcastIdle

\* The upstream API reports one more workflow run
WorkflowRunReported ==
    /\ op = "idle"
    /\ Len(runs) < MaxRuns
    /\ \E r \in RunDomain : runs' = Append(runs, r)
    /\ UNCHANGED <<op, resp, notification_rules, notification_history, fetch, wsVars>>

GetAnalyticsOverview ==
    /\ op = "idle"
    /\ \E d \in LookbackDays :
          resp' = [lookback_minutes |-> d * DayMinutes, body |-> get_analytics_overview(runs, d)]
    /\ op' = "analytics_overview"
    /\ UNCHANGED <<runs, notification_rules, notification_history, fetch, wsVars>>

GetPerformanceMetrics ==
    /\ op = "idle"
    /\ \E d \in LookbackDays :
          resp' = [lookback_minutes |-> d * DayMinutes, body |-> get_performance_metrics(runs, d)]
    /\ op' = "performance_metrics"
    /\ UNCHANGED <<runs, notification_rules, notification_history, fetch, wsVars>>

GetPipelineOverview ==
    /\ op = "idle"
    /\ \E m \in OverviewLookbacks :
          resp' = [lookback_minutes |-> m, body |-> get_pipeline_overview(runs, m)]
    /\ op' = "pipeline_overview"
    /\ UNCHANGED <<runs, notification_rules, notification_history, fetch, wsVars>>

GetPipelineMetrics ==
    /\ op = "idle"
    /\ \E m \in MetricsLookbacks :
          resp' = [lookback_minutes |-> m, body |-> get_pipeline_metrics(runs, m)]
    /\ op' = "pipeline_metrics"
    /\ UNCHANGED <<runs, notification_rules, notification_history, fetch, wsVars>>

GetBuildTrends ==
    /\ op = "idle"
    /\ \E d \in LookbackDays, granularity \in Granularities :
          resp' = [lookback_minutes |-> d * DayMinutes,
                   body |-> get_build_trends(runs, d, granularity)]
    /\ op' = "build_trends"
    /\ UNCHANGED <<runs, notification_rules, notification_history, fetch, wsVars>>

GetFailureAnalysis ==
    /\ op = "idle"
    /\ \E d \in LookbackDays :
          resp' = [lookback_minutes |-> d * DayMinutes, body |-> get_failure_analysis(runs, d)]
    /\ op' = "failure_analysis"
    /\ UNCHANGED <<runs, notification_rules, notification_history, fetch, wsVars>>

\* One run of the poll job, its environment read at start-up; the webhook is in one
\* condition for the few seconds the job takes, so its posts meet the same outcome
PollJob ==
    /\ op = "idle"
    /\ \E m \in PollLookbacks, include_cancelled \in BOOLEAN, send_analytics \in BOOLEAN,
          webhook \in WebhookOutcomes :
          resp' = [lookback_minutes |-> m, include_cancelled |-> include_cancelled,
                   send_analytics |-> send_analytics,
                   body |-> main(runs, m, include_cancelled, send_analytics,
                                 webhook, webhook)]
    /\ op' = "poll"
    /\ UNCHANGED <<runs, notification_rules, notification_history, fetch, wsVars>>

\* The response has been delivered (the job has exited): nothing of it is kept
Finished ==
    /\ op # "idle"
    /\ op' = "idle"
    /\ resp' = PyNone
    /\ UNCHANGED <<runs, notification_rules, notification_history, fetch, wsVars>>

Next ==
    \/ WorkflowRunReported
    \/ GetAnalyticsOverview
    \/ GetPerformanceMetrics
    \/ GetBuildTrends
    \/ GetFailureAnalysis
    \/ GetPipelineOverview
    \/ GetPipelineMetrics
    \/ Finished

\* The API server: its request handlers, over what the upstream API reports
Spec == Init /\ [][Next]_vars

\* The poll job is a program of its own (monitor/monitor.py, run on a schedule): it
\* shares nothing with the API server but the upstream API
JobRunReported ==
    /\ op = "idle"
    /\ Len(runs) < MaxJobRuns
    /\ \E r \in RunDomain : runs' = Append(runs, r)
    /\ UNCHANGED <<op, resp, notification_rules, notification_history, fetch, wsVars>>

NextJob ==
    \/ JobRunReported
    \/ PollJob
    \/ Finished

SpecJob == Init /\ [][NextJob]_vars

\* The poll job on the runs of a repository whose workflows are all CI
\* workflows: up to MaxCommitRuns runs of two commits, or of none
CommitRunReported ==
    /\ op = "idle"
    /\ Len(runs) < MaxCommitRuns
    /\ \E r \in CommitRuns : runs' = Append(runs, r)
    /\ UNCHANGED <<op, resp, notification_rules, notification_history, fetch, wsVars>>

NextPoll ==
    \/ CommitRunReported
    \/ PollJob
    \/ Finished

SpecPoll == Init /\ [][NextPoll]_vars

\* The performance endpoint over a page of runs as the upstream API lists them,
\* most recently updated first
SteadyRunReported ==
    /\ op = "idle"
    /\ Len(runs) < MaxSteadyRuns
    /\ \E r \in SteadyRuns :
          runs' = SelectSeq(runs, LAMBDA x : IsoParse(x.updated_at) > IsoParse(r.updated_at))
                  \o <<r>>
                  \o SelectSeq(runs, LAMBDA x : IsoParse(x.updated_at) <= IsoParse(r.updated_at))
    /\ UNCHANGED <<op, resp, notification_rules, notification_history, fetch, wsVars>>

NextStats ==
    \/ SteadyRunReported
    \/ GetPerformanceMetrics
    \/ Finished

SpecStats == Init /\ [][NextStats]_vars

\* The MTTR endpoint over a page of runs as the upstream API lists them, most
\* recently updated first
IncidentRunReported ==
    /\ op = "idle"
    /\ Len(runs) < MaxIncidentRuns
    /\ \E r \in IncidentRuns :
          runs' = SelectSeq(runs, LAMBDA x : IsoParse(x.updated_at) > IsoParse(r.updated_at))
                  \o <<r>>
                  \o SelectSeq(runs, LAMBDA x : IsoParse(x.updated_at) <= IsoParse(r.updated_at))
    /\ UNCHANGED <<op, resp, notification_rules, notification_history, fetch, wsVars>>

GetMttrAnalysis ==
    /\ op = "idle"
    /\ \E d \in LookbackDays :
          resp' = [lookback_minutes |-> d * DayMinutes, body |-> get_mttr_analysis(runs, d)]
    /\ op' = "mttr_analysis"
    /\ UNCHANGED <<runs, notification_rules, notification_history, fetch, wsVars>>

NextIncidents ==
    \/ IncidentRunReported
    \/ GetMttrAnalysis
    \/ Finished

SpecIncidents == Init /\ [][NextIncidents]_vars

\* The failure analysis over the runs of many branches: the API lists them branch
\* after branch, up to three runs of the first branch and one run of every other
BranchRunReported ==
    /\ op = "idle"
    /\ LET last == Cardinality({runs[i].head_branch : i \in 1..Len(runs)})
       IN  \E k \in {last, last + 1} :
              /\ k \in 1..MaxBranches
              /\ k \in 1..Len(BranchNames)
              /\ k = last => (k = 1 /\ Len(runs) < 3)
              /\ \E r \in BranchRuns(k) : runs' = Append(runs, r)
    /\ UNCHANGED <<op, resp, notification_rules, notification_history, fetch, wsVars>>

NextBranches ==
    \/ BranchRunReported
    \/ GetFailureAnalysis
    \/ Finished

SpecBranches == Init /\ [][NextBranches]_vars

\* A call of get_recent_runs, page by page.  The pages are requested while other
\* runs arrive upstream, so each page is of any size.
FetchStarted ==
    /\ fetch.pc = "idle"
    /\ fetch' = [FetchIdle EXCEPT !.pc = "request"]
    /\ UNCHANGED <<runs, op, resp, notification_rules, notification_history, wsVars>>

PageServed ==
    /\ fetch.pc = "request"
    /\ \E size \in PageSizes : \E recent \in {0, size} :
          fetch' = get_recent_runs_page([fetch EXCEPT !.requested = Append(@, fetch.page)],
                                        size, recent)
    /\ UNCHANGED <<runs, op, resp, notification_rules, notification_history, wsVars>>

\* _make_request re-raises the RequestException, and get_recent_runs lets it pass
PageRequestFailed ==
    /\ fetch.pc = "request"
    /\ fetch' = [fetch EXCEPT !.requested = Append(@, fetch.page), !.pc = "raised"]
    /\ UNCHANGED <<runs, op, resp, notification_rules, notification_history, wsVars>>

\* The caller has the list, or the exception
FetchReturned ==
    /\ fetch.pc \in {"return", "raised"}
    /\ fetch' = FetchIdle
    /\ UNCHANGED <<runs, op, resp, notification_rules, notification_history, wsVars>>

NextFetch ==
    \/ FetchStarted
    \/ PageServed
    \/ PageRequestFailed
    \/ FetchReturned

\* requests.get is given a timeout: a request under way is served or fails
SpecFetch == Init /\ [][NextFetch]_vars /\ WF_vars(PageServed \/ PageRequestFailed)

\* The notification endpoints of the API server.  Every handler is a coroutine
\* with no suspension point between its reads and its writes of the two lists
\* (requests.post blocks the event loop, send_slack_notification never suspends),
\* and one event loop thread runs them all: concurrent requests are handled one
\* whole handler after the other, in any order.

\* Bodies of POST /rules
RuleInputs ==
    { [name |-> "Failed builds", description |-> "Any failed build",
       trigger_events |-> <<"build_failed">>,
       conditions |-> <<[type |-> "status", value |-> "failed"]>>,
       channels |-> <<"slack", "email">>, enabled |-> TRUE],
      [name |-> "Everything", description |-> "Muted for now",
       trigger_events |-> <<"build_failed", "deployment_success">>,
       conditions |-> <<>>, channels |-> <<"slack">>, enabled |-> FALSE] }

NoUpdate == [name |-> PyNone, description |-> PyNone, trigger_events |-> PyNone,
             conditions |-> PyNone, channels |-> PyNone, enabled |-> PyNone]

\* Bodies of PUT /rules/{rule_id}
RuleUpdates ==
    { [NoUpdate EXCEPT !.enabled = Given(FALSE)],
      [NoUpdate EXCEPT !.channels = Given(<<"email", "slack">>)] }

\* rule_id of the path
RuleIds == 1..MaxRules

\* Bodies of POST /process/pipeline-event
EventTypes == {"build_failed", "deployment_success"}
Builds == { [branch |-> "main", status |-> "failed"],
            [branch |-> "dev", status |-> "failed"],
            [branch |-> "main", status |-> "success"] }

\* Body of POST /slack/send; rule_id 0 stands for no rule (rule ids start at 1)
SlackInputs == { [text |-> <<"Manual notice">>, rule_id |-> 0, channel |-> None] }

CreateRule ==
    /\ op = "idle"
    /\ Len(notification_rules) < MaxRules
    /\ \E rule \in RuleInputs :
          LET r == create_notification_rule(notification_rules, rule)
          IN  /\ notification_rules' = r.rules
              /\ resp' = [request |-> rule, body |-> r.body]
    /\ op' = "create_rule"
    /\ UNCHANGED <<runs, notification_history, fetch, wsVars>>

UpdateRule ==
    /\ op = "idle"
    /\ \E rule_id \in RuleIds, rule_update \in RuleUpdates :
          LET r == update_notification_rule(notification_rules, rule_id, rule_update)
          IN  /\ notification_rules' = r.rules
              /\ resp' = [request |-> [rule_id |-> rule_id, rule_update |-> rule_update],
                          body |-> r.body]
    /\ op' = "update_rule"
    /\ UNCHANGED <<runs, notification_history, fetch, wsVars>>

DeleteRule ==
    /\ op = "idle"
    /\ \E rule_id \in RuleIds :
          LET r == delete_notification_rule(notification_rules, rule_id)
          IN  /\ notification_rules' = r.rules
              /\ resp' = [request |-> [rule_id |-> rule_id], body |-> r.body]
    /\ op' = "delete_rule"
    /\ UNCHANGED <<runs, notification_history, fetch, wsVars>>

SendSlackNotification ==
    /\ op = "idle"
    /\ Len(notification_history) < MaxHistory
    /\ \E notification \in SlackInputs, outcome \in SlackOutcomes :
          LET r == send_slack_notification(notification_history, notification, outcome)
          IN  /\ notification_history' = r.history
              /\ resp' = [request |-> notification, body |-> r.body]
    /\ op' = "slack_send"
    /\ UNCHANGED <<runs, notification_rules, fetch, wsVars>>

\* The webhook is in one condition for the time one request takes
ProcessPipelineEvent ==
    /\ op = "idle"
    /\ Len(notification_history) < MaxHistory
    /\ \E event_type \in EventTypes, build_data \in Builds, outcome \in SlackOutcomes :
          LET r == process_pipeline_event(notification_rules, notification_history,
                                          event_type, build_data, outcome)
          IN  /\ notification_history' = r.history
              /\ resp' = [request |-> [type |-> event_type, build |-> build_data],
                          body |-> r.body]
    /\ op' = "pipeline_event"
    /\ UNCHANGED <<runs, notification_rules, fetch, wsVars>>

NextNotify ==
    \/ CreateRule
    \/ UpdateRule
    \/ DeleteRule
    \/ SendSlackNotification
    \/ ProcessPipelineEvent
    \/ Finished

SpecNotify == Init /\ [][NextNotify]_vars


\* The websocket endpoint /ws and the broadcasts.  One event loop runs the
\* endpoint coroutines and the broadcast; a coroutine runs alone from one await
\* to the next.  Websocket objects are alike, so they connect in the order of
\* their numbers.

\* websocket_endpoint up to its first receive: connect accepts, then adds
Connect ==
    /\ \E websocket \in Sockets :
          /\ endpoints[websocket] = "new"
          /\ \A w \in 1..(websocket - 1) : endpoints[w] # "new"
          /\ endpoints' = [endpoints EXCEPT ![websocket] = "open"]
          /\ active_connections' = Append(active_connections, websocket)
          /\ subscriptions' = [w \in DOMAIN subscriptions \cup {websocket} |->
                                   IF w = websocket THEN {} ELSE subscriptions[w]]
    /\ UNCHANGED <<runs, op, resp, notification_rules, notification_history, fetch, broadcast>>

\* A "subscribe" message on an open endpoint, up to the await of the confirmation
Subscribe ==
    /\ \E websocket \in Sockets, event \in WsEvents :
          /\ endpoints[websocket] = "open"
          /\ subscriptions' =
                 IF websocket \in DOMAIN subscriptions
                 THEN [subscriptions EXCEPT ![websocket] = @ \cup {event}]
                 ELSE subscriptions
    /\ UNCHANGED <<runs, op, resp, notification_rules, notification_history, fetch,
                   active_connections, endpoints, broadcast>>

\* receive_text or a send of the endpoint raises (the client went away, the
\* confirmation or the pong failed): either except branch calls disconnect
Disconnect ==
    /\ \E websocket \in Sockets :
          /\ endpoints[websocket] = "open"
          /\ endpoints' = [endpoints EXCEPT ![websocket] = "closed"]
          /\ LET m == disconnect([active_connections |-> active_connections,
                                  subscriptions |-> subscriptions], websocket)
             IN  /\ active_connections' = m.active_connections
                 /\ subscriptions' = m.subscriptions
    /\ UNCHANGED <<runs, op, resp, notification_rules, notification_history, fetch, broadcast>>

\* broadcast(message, event_type) up to its first send, or to its return when
\* nobody is to be sent to
BroadcastStarted ==
    /\ broadcast.pc = "idle"
    /\ \E event_type \in WsEvents :
          LET b == [pc |-> "done", event_type |-> event_type, index |-> 0, target |-> 0,
                    disconnected |-> <<>>, delivered |-> <<>>,
                    audience |-> {w \in DOMAIN subscriptions :
                                     /\ event_type \in subscriptions[w]
                                     /\ \E i \in 1..Len(active_connections) :
                                            active_connections[i] = w}]
              r == broadcast_from([active_connections |-> active_connections,
                                   subscriptions |-> subscriptions], b, 1)
          IN  IF active_connections = <<>>
              THEN /\ broadcast' = b
                   /\ UNCHANGED <<active_connections, subscriptions>>
              ELSE /\ broadcast' = r.b
                   /\ active_connections' = r.m.active_connections
                   /\ subscriptions' = r.m.subscriptions
    /\ UNCHANGED <<runs, op, resp, notification_rules, notification_history, fetch, endpoints>>

\* The send under way returns or raises, and the loop runs on to the next send
\* or, past the end of the list, through the clean-up
SendReturned ==
    /\ broadcast.pc = "send"
    /\ \E raised \in BOOLEAN :
          LET b == IF raised
                   THEN [broadcast EXCEPT !.disconnected = Append(@, broadcast.target)]
                   ELSE [broadcast EXCEPT !.delivered = Append(@, broadcast.target)]
              r == broadcast_from([active_connections |-> active_connections,
                                   subscriptions |-> subscriptions], b, broadcast.index + 1)
          IN  /\ broadcast' = r.b
              /\ active_connections' = r.m.active_connections
              /\ subscriptions' = r.m.subscriptions
    /\ UNCHANGED <<runs, op, resp, notification_rules, notification_history, fetch, endpoints>>

\* The caller of broadcast goes on
BroadcastReturned ==
    /\ broadcast.pc = "done"
    /\ broadcast' = BroadcastIdle
    /\ UNCHANGED <<runs, op, resp, notification_rules, notification_history, fetch,
                   active_connections, subscriptions, endpoints>>

NextSockets ==
    \/ Connect
    \/ Subscribe
    \/ Disconnect
    \/ BroadcastStarted
    \/ SendReturned
    \/ BroadcastReturned

SpecSockets == Init /\ [][NextSockets]_vars

---------------------------------------------------------------------------
(* Notions the claims are stated with *)

RequestOps == {"analytics_overview", "performance_metrics", "build_trends",
               "failure_analysis", "pipeline_overview", "pipeline_metrics"}

\* The poll job ran analyze() (it did not raise and SEND_ANALYTICS was true)
Analysed == op = "poll" /\ resp.body.analysed

\* A record's event time, for records whose updated_at is a timestamp
TimeOf(r) == IsoParse(r.updated_at)

\* The records a time window ought to retain: updated_at present, a timestamp,
\* and not before the cutoff
InWindow(r, lookback_minutes) ==
    /\ r.updated_at \in Stamps
    /\ TimeOf(r) >= Now - lookback_minutes

\* The completed runs a request with this lookback analyses
CompletedAnalysed(api_runs, lookback_minutes) ==
    SelectSeq(filter_ci_cd_runs(get_recent_runs(api_runs, lookback_minutes, TRUE), TRUE),
              IsCompleted)

\* The input without the runs of workflows named like the monitor
WithoutMonitorNamed(rs) == SelectSeq(rs, LAMBDA r : ~IsMonitorName(r.name))

\* The recovery samples as the specification words them: for every failed run
\* with a success strictly later, the gap to the earliest such success
ExpectedSamples(completed, failure_states) ==
    LET idx == [i \in 1..Len(completed) |-> i]
        Later(i) == {TimeOf(completed[j]) : j \in {j \in 1..Len(completed) :
                        IsSuccess(completed[j]) /\ TimeOf(completed[j]) > TimeOf(completed[i])}}
        recovered == SelectSeq(idx, LAMBDA i :
                        completed[i].conclusion \in failure_states /\ Later(i) # {})
    IN  [k \in 1..Len(recovered) |->
            (CHOOSE t \in Later(recovered[k]) : \A u \in Later(recovered[k]) : t <= u)
            - TimeOf(completed[recovered[k]])]

---------------------------------------------------------------------------
(* C1 *)

\* C1: each overview that reports both rates has success_rate + failure_rate = 100
\* when at least one completed run is analysed, and both rates 0 when none is
\* (also when the analysed runs are all queued or in progress).
C1_RatesSumTo100OrBothZero ==
    (op \in {"analytics_overview", "pipeline_overview"} /\ resp.body.status = 200) =>
        LET n == Len(CompletedAnalysed(runs, resp.lookback_minutes))
        IN  /\ n > 0 => resp.body.success_rate + resp.body.failure_rate = 10000
            /\ n = 0 => resp.body.success_rate = 0 /\ resp.body.failure_rate = 0

---------------------------------------------------------------------------
(* C2 *)

\* C2: a run whose workflow name contains "monitor" or "analytics", whatever the
\* case, contributes to no figure: every result equals the result computed on the
\* input without such runs, in the request layer and in the poll job's analyze().
C2_MonitorNamedRunsExcluded ==
    /\ op = "analytics_overview" =>
          resp.body = get_analytics_overview(WithoutMonitorNamed(runs),
                                             resp.lookback_minutes \div DayMinutes)
    /\ op = "performance_metrics" =>
          resp.body = get_performance_metrics(WithoutMonitorNamed(runs),
                                              resp.lookback_minutes \div DayMinutes)
    /\ op = "pipeline_overview" =>
          resp.body = get_pipeline_overview(WithoutMonitorNamed(runs), resp.lookback_minutes)
    /\ op = "pipeline_metrics" =>
          resp.body = get_pipeline_metrics(WithoutMonitorNamed(runs), resp.lookback_minutes)
    /\ Analysed =>
          resp.body.locals.metrics =
              analyze(WithoutMonitorNamed(runs), resp.lookback_minutes,
                      resp.include_cancelled).metrics

---------------------------------------------------------------------------
(* C3 *)

\* C3: the deduplication step of analyze() returns at most one record per
\* head_sha, each returned record is an input record with the greatest updated_at
\* among the input records of its head_sha, and the result is ordered newest first.
C3_DedupeLatestPerCommit ==
    Analysed =>
        LET inp == resp.body.locals.ci_cd_runs
            out == resp.body.locals.deduped
        IN  /\ \A i, j \in 1..Len(out) : i # j => out[i].head_sha # out[j].head_sha
            /\ \A i \in 1..Len(out) : \E k \in 1..Len(inp) : inp[k] = out[i]
            /\ \A i \in 1..Len(out) : \A k \in 1..Len(inp) :
                  inp[k].head_sha = out[i].head_sha => TimeOf(inp[k]) <= TimeOf(out[i])
            /\ \A i, j \in 1..Len(out) : i < j => TimeOf(out[i]) >= TimeOf(out[j])

\* C3 witness: analyze() deduplicated three runs, an older run of a commit listed
\* before a newer run of the same commit, into two records.
C3_Witness ==
    /\ Analysed
    /\ Len(resp.body.locals.ci_cd_runs) = 3
    /\ Len(resp.body.locals.deduped) = 2
    /\ \E i, k \in 1..3 :
          /\ i < k
          /\ resp.body.locals.ci_cd_runs[i].head_sha = resp.body.locals.ci_cd_runs[k].head_sha
          /\ TimeOf(resp.body.locals.ci_cd_runs[i]) < TimeOf(resp.body.locals.ci_cd_runs[k])

---------------------------------------------------------------------------
(* C4 *)

\* C4 as claimed: deduplication never increases the record count, and for every
\* head_sha value occurring in the input, a missing or empty one included, the
\* output holds the most recently updated record of that value.
C4_EveryCommitValueKept ==
    Analysed =>
        LET inp == resp.body.locals.ci_cd_runs
            out == resp.body.locals.deduped
        IN  /\ Len(out) <= Len(inp)
            /\ \A k \in 1..Len(inp) : \E i \in 1..Len(out) :
                  /\ out[i].head_sha = inp[k].head_sha
                  /\ \A m \in 1..Len(inp) :
                        inp[m].head_sha = inp[k].head_sha => TimeOf(inp[m]) <= TimeOf(out[i])

\* C4 amended: deduplication never increases the record count; for every non-empty
\* head_sha occurring in the input the output holds a most recently updated record
\* of that commit; records whose head_sha is missing or empty are not in the output.
C4_EveryNamedCommitKept ==
    Analysed =>
        LET inp == resp.body.locals.ci_cd_runs
            out == resp.body.locals.deduped
        IN  /\ Len(out) <= Len(inp)
            /\ \A k \in 1..Len(inp) : Truthy(inp[k].head_sha) =>
                  \E i \in 1..Len(out) :
                      /\ out[i].head_sha = inp[k].head_sha
                      /\ \E m \in 1..Len(inp) : inp[m] = out[i]
                      /\ \A m \in 1..Len(inp) :
                            inp[m].head_sha = inp[k].head_sha => TimeOf(inp[m]) <= TimeOf(out[i])
            /\ \A i \in 1..Len(out) : Truthy(out[i].head_sha)

\* C4 witness: analyze() deduplicated a run without commit id together with an
\* older and then a newer run of one commit; one record is left.
C4_Witness ==
    /\ Analysed
    /\ Len(resp.body.locals.ci_cd_runs) = 3
    /\ Len(resp.body.locals.deduped) = 1
    /\ \E k \in 1..3 : ~Truthy(resp.body.locals.ci_cd_runs[k].head_sha)
    /\ \E i, k \in 1..3 :
          /\ i < k
          /\ Truthy(resp.body.locals.ci_cd_runs[i].head_sha)
          /\ resp.body.locals.ci_cd_runs[i].head_sha = resp.body.locals.ci_cd_runs[k].head_sha
          /\ TimeOf(resp.body.locals.ci_cd_runs[i]) < TimeOf(resp.body.locals.ci_cd_runs[k])

---------------------------------------------------------------------------
(* C5 *)

\* C5: deduplication is idempotent: the sort / keep-first step applied to the
\* deduplicated list of analyze() gives that list again, in the same order.
C5_DedupeIdempotent ==
    Analysed => Dedupe(resp.body.locals.deduped) = resp.body.locals.deduped

\* C5 witness: analyze() deduplicated three runs into two records of different
\* commits with the same updated_at.
C5_Witness ==
    /\ Analysed
    /\ Len(resp.body.locals.ci_cd_runs) = 3
    /\ Len(resp.body.locals.deduped) = 2
    /\ resp.body.locals.deduped[1].updated_at = resp.body.locals.deduped[2].updated_at

---------------------------------------------------------------------------
(* C6 *)

\* The input of the scenario: exactly two completed CI runs of one commit inside
\* the window, a failure and a success updated strictly later
TwoRunsOfOneCommit(lookback_minutes) ==
    /\ Len(runs) = 2
    /\ \E i, j \in 1..2 :
          /\ runs[i].name = NameCI /\ runs[j].name = NameCI
          /\ IsCompleted(runs[i]) /\ IsCompleted(runs[j])
          /\ runs[i].conclusion = "failure" /\ runs[j].conclusion = "success"
          /\ Truthy(runs[i].head_sha) /\ runs[i].head_sha = runs[j].head_sha
          /\ InWindow(runs[i], lookback_minutes) /\ InWindow(runs[j], lookback_minutes)
          /\ TimeOf(runs[i]) < TimeOf(runs[j])

\* C6: on two completed runs of one commit inside the window, a failure and a later
\* success, only the later record is counted and the success rate is 100 (one
\* success, no failure), in get_analytics_overview and in the poll job's analyze().
C6_OnlyLatestRunOfCommitCounted ==
    /\ (op = "analytics_overview" /\ TwoRunsOfOneCommit(resp.lookback_minutes)) =>
          /\ resp.body.status = 200
          /\ resp.body.total_builds = 1
          /\ resp.body.success_rate = 10000
          /\ resp.body.failure_rate = 0
    /\ (Analysed /\ TwoRunsOfOneCommit(resp.lookback_minutes)) =>
          /\ resp.body.locals.metrics.window = 1
          /\ resp.body.locals.metrics.successes = 1
          /\ resp.body.locals.metrics.failures = 0

---------------------------------------------------------------------------
(* C7 *)

\* C7: every time-window selection retains a record iff its updated_at is present,
\* parseable and not before the cutoff, and a missing or unparseable updated_at
\* never makes the selection raise: get_recent_runs (read off the number of runs
\* GET /pipeline/overview analysed), the cutoff filter of analyze(), and the alert
\* selection of the poll job.
C7_WindowSelectionNeverRaises ==
    /\ op = "pipeline_overview" =>
          /\ resp.body.status = 200
          /\ resp.body.total_runs_analyzed =
                Len(SelectSeq(WithoutMonitorNamed(runs),
                              LAMBDA r : InWindow(r, resp.lookback_minutes)))
    /\ op = "poll" =>
          /\ ~resp.body.raised
          /\ resp.body.failures =
                SelectSeq(runs, LAMBDA r :
                    /\ IsCompleted(r)
                    /\ r.conclusion \in {"failure", "timed_out", "cancelled"}
                    /\ InWindow(r, resp.lookback_minutes))
    /\ Analysed =>
          resp.body.locals.ci_cd_runs =
              SelectSeq(SelectSeq(runs, NotMonitorWorkflow),
                        LAMBDA r : InWindow(r, resp.lookback_minutes))

---------------------------------------------------------------------------
(* C8 *)

\* C8: the reported MTTR is the mean of one sample per failed completed run that a
\* success with a later updated_at follows, the gap to the first such success; a
\* failure without a later success contributes no sample (so without any sample no
\* positive MTTR is reported).
C8_MttrOverFailuresWithLaterSuccess ==
    /\ (op = "analytics_overview" /\ resp.body.status = 200) =>
          LET samples == ExpectedSamples(CompletedAnalysed(runs, resp.lookback_minutes),
                                         {"failure", "timed_out"})
          IN  resp.body.mttr_minutes = MeanRound2(samples)
    /\ Analysed =>
          LET samples == ExpectedSamples(resp.body.locals.completed,
                                         FailureStates(resp.include_cancelled))
          IN  /\ samples # <<>> =>
                    resp.body.locals.metrics.mttr_min
                        = PyNum(Round2(SumSeq(samples), Len(samples)))
              /\ samples = <<>> =>
                    resp.body.locals.metrics.mttr_min \in {PyNone, PyNum(0)}

---------------------------------------------------------------------------
(* C9 *)

\* C9: the reported MTTR is the number 0, not None, whenever the analysed set has
\* no completed records or no failures, in the request layer and in analyze().
C9_MttrZeroWithoutFailures ==
    /\ (op = "analytics_overview" /\ resp.body.status = 200) =>
          LET completed == CompletedAnalysed(runs, resp.lookback_minutes)
          IN  (completed = <<>> \/ SelectSeq(completed, IsFailed) = <<>>) =>
                  resp.body.mttr_minutes = 0
    /\ Analysed =>
          LET completed == resp.body.locals.completed
              failure_states == FailureStates(resp.include_cancelled)
          IN  (\/ completed = <<>>
               \/ SelectSeq(completed, LAMBDA r : r.conclusion \in failure_states) = <<>>) =>
                  resp.body.locals.metrics.mttr_min = PyNum(0)

---------------------------------------------------------------------------
(* C10 *)

\* C10: when no records are supplied, every metrics entry point returns a result
\* whose statistics are all zero or empty, and none raises.
C10_EmptyInputAllZero ==
    runs = <<>> =>
        /\ op = "analytics_overview" =>
              /\ resp.body.status = 200
              /\ \A f \in {"total_builds", "success_rate", "failure_rate",
                           "average_duration_minutes", "mttr_minutes", "builds_per_day"} :
                    resp.body[f] = 0
              /\ resp.body.most_active_branch = "" /\ resp.body.most_active_author = ""
        /\ op = "performance_metrics" =>
              /\ resp.body.status = 200
              /\ \A f \in {"average_duration_minutes", "median_duration_minutes",
                           "p95_duration_minutes", "fastest_build_minutes",
                           "slowest_build_minutes"} :
                    resp.body[f] = 0
              /\ resp.body.duration_trend = <<>> /\ resp.body.bottlenecks = <<>>
        /\ op = "pipeline_metrics" =>
              /\ resp.body.status = 200
              /\ \A f \in {"total_runs", "success_count", "failure_count", "success_rate",
                           "average_duration_minutes", "fastest_build_minutes",
                           "slowest_build_minutes", "builds_per_day"} :
                    resp.body[f] = 0
        /\ op = "poll" => ~resp.body.raised
        /\ Analysed =>
              /\ \A f \in {"window", "successes", "failures"} :
                    resp.body.locals.metrics[f] = 0
              /\ resp.body.locals.metrics.avg_duration_min = PyNum(0)
              /\ resp.body.locals.metrics.mttr_min = PyNum(0)

---------------------------------------------------------------------------
(* C11 *)

\* The number of periods of a granularity in a lookback of so many days
PeriodsIn(granularity, lookback_days) ==
    CASE granularity = "hourly" -> 24 * lookback_days
      [] granularity = "weekly" -> (lookback_days + 6) \div 7
      [] OTHER -> lookback_days

\* C11: every trend series over the N periods of the lookback holds exactly one
\* entry per period, and the entry of a period without matching records is 0: the
\* three series of get_build_trends, the daily failure series of
\* get_failure_analysis and the daily duration series of get_performance_metrics.
C11_OneEntryPerPeriod ==
    /\ op = "build_trends" =>
          LET n == PeriodsIn(resp.body.granularity, resp.body.period_days)
          IN  /\ Len(resp.body.success_trend) = n
              /\ Len(resp.body.failure_trend) = n
              /\ Len(resp.body.duration_trend) = n
    /\ op = "failure_analysis" =>
          LET completed == CompletedAnalysed(runs, resp.lookback_minutes)
              trend == resp.body.failure_trend
          IN  /\ Len(trend) = resp.body.period_days
              /\ \A k \in 1..Len(trend) :
                    DayRuns(completed, trend[k].timestamp) = <<>> => trend[k].value = 0
    /\ (op = "performance_metrics" /\ resp.body.average_duration_minutes # 0) =>
          LET completed == CompletedAnalysed(runs, resp.lookback_minutes)
              trend == resp.body.duration_trend
          IN  /\ Len(trend) = resp.body.period_days
              /\ \A k \in 1..Len(trend) :
                    DayRuns(completed, trend[k].timestamp) = <<>> => trend[k].value = 0

---------------------------------------------------------------------------
(* C12 *)

\* The input without its completed runs concluded "cancelled"
WithoutCancelled(rs) ==
    SelectSeq(rs, LAMBDA r : ~(IsCompleted(r) /\ r.conclusion = "cancelled"))

\* C12: in the request layer only the conclusions failure and timed_out count as
\* failed: the reported failure count is the number of such runs, and a cancelled
\* completed run never raises a reported failure_rate, i.e. no failure_rate is
\* higher than the one reported for the same input without its cancelled runs
\* (analytics overview, failure analysis, pipeline overview).
C12_CancelledNeverCountsAsFailed ==
    /\ (op = "analytics_overview" /\ resp.body.status = 200) =>
          resp.body.failure_rate <=
              get_analytics_overview(WithoutCancelled(runs),
                                     resp.lookback_minutes \div DayMinutes).failure_rate
    /\ op = "failure_analysis" =>
          /\ resp.body.total_failures =
                Len(SelectSeq(CompletedAnalysed(runs, resp.lookback_minutes), IsFailed))
          /\ resp.body.failure_rate <=
                get_failure_analysis(WithoutCancelled(runs),
                                     resp.lookback_minutes \div DayMinutes).failure_rate
    /\ op = "pipeline_overview" =>
          resp.body.failure_rate <=
              get_pipeline_overview(WithoutCancelled(runs), resp.lookback_minutes).failure_rate

---------------------------------------------------------------------------
(* C13 *)

\* C13: the poll job alerts on exactly the completed runs updated within the
\* lookback whose conclusion is failure or timed_out, or cancelled when
\* INCLUDE_CANCELLED is true; with INCLUDE_CANCELLED false a cancelled run gets no
\* alert block and is not counted in the summary line.
C13_AlertsFollowIncludeCancelled ==
    (op = "poll" /\ ~resp.body.raised) =>
        LET expected == SelectSeq(runs, LAMBDA r :
                            /\ IsCompleted(r)
                            /\ r.conclusion \in FailureStates(resp.include_cancelled)
                            /\ InWindow(r, resp.lookback_minutes))
            alerts == SelectSeq(resp.body.posts, LAMBDA p : p.kind = "alert")
        IN  /\ resp.body.failures = expected
            /\ expected = <<>> => alerts = <<>>
            /\ \A i \in 1..Len(alerts) :
                  alerts[i].count = Len(expected) /\ Len(alerts[i].blocks) = 4 * Len(expected)

---------------------------------------------------------------------------
(* C14 *)

\* C14: format_failure_block never raises: whatever optional field of a run (the
\* head_commit, its author, its message) is missing or empty, the job does not end
\* in format_failure_block, and the alert it posts holds the four blocks of every
\* selected run, with a non-empty placeholder where the author is missing.
C14_FormatFailureBlockNeverRaises ==
    op = "poll" =>
        /\ resp.body.raised => resp.body.error # "format_failure_block"
        /\ \A i \in 1..Len(resp.body.posts) :
              resp.body.posts[i].kind = "alert" =>
                  /\ Len(resp.body.posts[i].blocks) = 4 * resp.body.posts[i].count
                  /\ \A k \in 1..Len(resp.body.posts[i].blocks) :
                        resp.body.posts[i].blocks[k].type = "context" =>
                            Truthy(resp.body.posts[i].blocks[k].by)

---------------------------------------------------------------------------
(* C16 *)

\* C16: in the poll job a failure of the webhook POST of the failure alert never
\* ends the run: whenever an alert was posted and SEND_ANALYTICS is true, whatever
\* the webhook did with the alert, the job does not raise, analyze() is computed on
\* the fetched runs, and the digest carrying its metrics is posted next.
C16_DigestFollowsAlertPost ==
    (/\ op = "poll"
     /\ resp.send_analytics
     /\ resp.body.posts # <<>>
     /\ resp.body.posts[1].kind = "alert") =>
        /\ ~resp.body.raised
        /\ resp.body.analysed
        /\ Len(resp.body.posts) = 2
        /\ resp.body.posts[2].kind = "digest"
        /\ resp.body.posts[2].metrics =
              analyze(runs, resp.lookback_minutes, resp.include_cancelled).metrics

\* C16 witness: the webhook did not accept the alert of two failures, and the
\* digest of the analysed runs was posted after it.
C16_Witness ==
    /\ op = "poll"
    /\ resp.send_analytics
    /\ Len(resp.body.posts) = 2
    /\ resp.body.posts[1].kind = "alert"
    /\ resp.body.posts[1].count = 2
    /\ resp.body.posts[1].outcome # "ok"
    /\ resp.body.posts[2].kind = "digest"
    /\ resp.body.posts[2].metrics.failures > 0

\* A rule the event ought to trigger: enabled, the event type among its
\* trigger_events, each of its branch and status conditions equal to the build's
RuleMatches(rule, event_type, build_data) ==
    /\ rule.enabled
    /\ \E i \in 1..Len(rule.trigger_events) : rule.trigger_events[i] = event_type
    /\ \A i \in 1..Len(rule.conditions) :
          /\ rule.conditions[i].type = "branch" => rule.conditions[i].value = build_data.branch
          /\ rule.conditions[i].type = "status" => rule.conditions[i].value = build_data.status

\* One (rule, channel) pair per channel listed in each rule, rule by rule
RECURSIVE RuleChannelPairs(_)
RuleChannelPairs(rules) ==
    IF rules = <<>> THEN <<>>
    ELSE [i \in 1..Len(Head(rules).channels) |->
             [rule_id |-> Head(rules).id, channel |-> Head(rules).channels[i]]]
         \o RuleChannelPairs(Tail(rules))

\* The (rule, channel) pairs of the notifications_sent of a response
SentPairs(notifications_sent) ==
    [i \in 1..Len(notifications_sent) |->
        [rule_id |-> notifications_sent[i].rule_id, channel |-> notifications_sent[i].channel]]

\* C15: process_pipeline_event reports, in (rule order, channel order), exactly one
\* notification for every channel listed in every enabled rule whose trigger_events
\* contains the event type and whose branch/status conditions all match
C15_OneNotificationPerRuleAndChannel ==
    op = "pipeline_event" =>
        SentPairs(resp.body.notifications_sent)
            = RuleChannelPairs(SelectSeq(notification_rules,
                  LAMBDA rule : RuleMatches(rule, resp.request.type, resp.request.build)))

\* How often a value occurs in a list
Occurrences(x, s) == Cardinality({i \in 1..Len(s) : s[i] = x})

\* The step is a successful update or delete of the rule with this id
MutatesRule(rule_id) ==
    /\ op' \in {"update_rule", "delete_rule"}
    /\ resp'.body.status = 200
    /\ resp'.request.rule_id = rule_id

SortedDurations ==
    SortInts(PositiveDurations(CompletedAnalysed(runs, resp.lookback_minutes)))

\* C18: the median duration reported by GET /analytics/performance is the
\* lower-middle element of the ascending duration list for an even count and the
\* middle element for an odd count
C18_MedianIsLowerMiddle ==
    (op = "performance_metrics" /\ SortedDurations # <<>>) =>
        resp.body.median_duration_minutes
            = 100 * SortedDurations[(Len(SortedDurations) + 1) \div 2]

\* C19: the p95 duration reported by GET /analytics/performance is the element at
\* index floor(n * 0.95), clamped to n - 1, of the ascending list of the n >= 1
\* durations; the index is within the list, and for 20 durations it is 19, the maximum
C19_P95AtClampedIndex ==
    (op = "performance_metrics" /\ SortedDurations # <<>>) =>
        LET n == Len(SortedDurations)
            index == Min2((n * 95) \div 100, n - 1)
        IN  /\ index \in 0..(n - 1)
            /\ resp.body.p95_duration_minutes = 100 * SortedDurations[index + 1]
            /\ n = 20 => /\ index = 19
                         /\ resp.body.p95_duration_minutes = resp.body.slowest_build_minutes

\* Twenty durations of which only one is the longest: the p95 is that one
C19_Witness ==
    /\ op = "performance_metrics"
    /\ Len(SortedDurations) = 20
    /\ SortedDurations[19] < SortedDurations[20]
    /\ resp.body.p95_duration_minutes = 100 * SortedDurations[20]

\* C20: a completed run whose duration is non-positive or unavailable is left out of
\* every duration statistic: the mean, median, p95, fastest and slowest of
\* GET /analytics/performance are taken over the positive durations only, no
\* reported bottleneck has a non-positive duration, and the poll job's average
\* duration is the mean of the positive durations (None when there is none)
C20_NonPositiveDurationsExcluded ==
    /\ op = "performance_metrics" =>
          /\ resp.body.average_duration_minutes = MeanRound2(SortedDurations)
          /\ SortedDurations # <<>> =>
                /\ resp.body.fastest_build_minutes = 100 * SortedDurations[1]
                /\ resp.body.slowest_build_minutes
                       = 100 * SortedDurations[Len(SortedDurations)]
                /\ resp.body.median_duration_minutes > 0
                /\ resp.body.p95_duration_minutes > 0
          /\ \A i \in 1..Len(resp.body.bottlenecks) :
                resp.body.bottlenecks[i].duration_minutes > 0
    /\ Analysed =>
          resp.body.locals.metrics.avg_duration_min
              = OptMeanRound2(SelectSeq(PollDurations(resp.body.locals.completed),
                                        LAMBDA d : d > 0))

\* C21: _calculate_mttr leaves the list it is given as it was: after the call in
\* get_analytics_overview the caller's completed_runs holds the same records in the
\* same order
C21_MttrLeavesListUnchanged ==
    op = "analytics_overview" =>
        calculate_mttr(CompletedAnalysed(runs, resp.lookback_minutes)).runs
            = CompletedAnalysed(runs, resp.lookback_minutes)

\* C22: the most active branch and author of get_analytics_overview are the most
\* frequent ones among the completed runs, the one met first in the order the runs
\* were supplied winning a tie
C22_MostActiveFirstInInputOrder ==
    (op = "analytics_overview" /\ resp.body.status = 200
       /\ CompletedAnalysed(runs, resp.lookback_minutes) # <<>>) =>
        LET completed == CompletedAnalysed(runs, resp.lookback_minutes)
        IN  /\ resp.body.most_active_branch
                  = MostActive([i \in 1..Len(completed) |-> BranchOf(completed[i])])
            /\ resp.body.most_active_author
                  = MostActive([i \in 1..Len(completed) |-> AuthorOf(completed[i])])

\* C23: the failure_incidents of get_mttr_analysis are the (at most 10) most recently
\* updated failed runs of the window
C23_IncidentsAreLatestFailures ==
    (op = "mttr_analysis" /\ resp.body.status = 200) =>
        LET failed == SelectSeq(CompletedAnalysed(runs, resp.lookback_minutes), IsFailed)
            latest == Take(SortNewestByStampFrom(<<>>, failed), 10)
            incidents == resp.body.failure_incidents
        IN  /\ Len(incidents) = Len(latest)
            /\ SortInts([i \in 1..Len(incidents) |-> IsoParse(incidents[i].failure_time)])
                   = SortInts([i \in 1..Len(latest) |-> TimeOf(latest[i])])

\* C24: get_recent_runs requests pages 1, 2, ... in order and at most MaxPages of
\* them, requests no page after an empty or a short one, returns what it gathered
\* from the pages served, and every call comes to its end
C24_PagingStopsAndReturns ==
    /\ [](/\ Len(fetch.requested) <= MaxPages
          /\ \A i \in 1..Len(fetch.requested) : fetch.requested[i] = i
          /\ \A i \in 1..Len(fetch.pages) :
                i < Len(fetch.requested) => fetch.pages[i].size = PerPage
          /\ fetch.pc = "return" =>
                /\ Len(fetch.pages) = Len(fetch.requested)
                /\ fetch.all_runs
                       = SumSeq([i \in 1..Len(fetch.pages) |-> fetch.pages[i].recent]))
    /\ (fetch.pc = "request") ~> (fetch.pc \in {"return", "raised"})

\* The page ceiling was met: five full pages, all of recent runs, and the call returns
C24_Witness ==
    /\ fetch.pc = "return"
    /\ fetch.requested = <<1, 2, 3, 4, 5>>
    /\ fetch.all_runs = MaxPages * PerPage

\* The failure attribution the claim describes, checked on a reported list of groups:
\* keys[i] is the group of completed[i]
AttributionHolds(groups, keys, completed) ==
    LET Total(key) == Cardinality({j \in 1..Len(keys) : keys[j] = key})
        Failures(key) ==
            Cardinality({j \in 1..Len(keys) : keys[j] = key /\ IsFailed(completed[j])})
        all == {keys[j] : j \in 1..Len(keys)}
        listed == {groups[i].key : i \in 1..Len(groups)}
    IN  /\ Len(groups) = Min2(10, Cardinality(all))
        /\ Cardinality(listed) = Len(groups)
        /\ listed \subseteq all
        /\ \A i \in 1..Len(groups) :
              /\ groups[i].total_builds = Total(groups[i].key)
              /\ groups[i].failures = Failures(groups[i].key)
              /\ groups[i].failures <= groups[i].total_builds
              /\ groups[i].failure_rate
                     = Round2(100 * groups[i].failures, groups[i].total_builds)
        /\ \A i \in 1..Len(groups) : \A j \in i..Len(groups) :
              groups[i].failure_rate >= groups[j].failure_rate
        /\ \A key \in all \ listed : \A i \in 1..Len(groups) :
              Round2(100 * Failures(key), Total(key)) <= groups[i].failure_rate

\* C25: the failure attribution by branch and by author groups the completed runs,
\* reports failures <= total_builds and failure_rate = failures / total_builds * 100
\* for each group, orders the groups by non-increasing failure rate, and returns at
\* most 10 groups, the 10 of highest rate
C25_FailureAttributionTop10 ==
    op = "failure_analysis" =>
        LET completed == CompletedAnalysed(runs, resp.lookback_minutes)
        IN  /\ AttributionHolds(resp.body.failure_by_branch,
                                [i \in 1..Len(completed) |-> BranchOf(completed[i])],
                                completed)
            /\ AttributionHolds(resp.body.failure_by_author,
                                [i \in 1..Len(completed) |-> AuthorOf(completed[i])],
                                completed)

\* Eleven branches have runs, the first of them without a failure: ten groups are
\* reported, ordered from a rate of 100 down to a lower one, the first branch left out
C25_Witness ==
    /\ op = "failure_analysis"
    /\ Cardinality({runs[i].head_branch : i \in 1..Len(runs)}) = 11
    /\ Len(runs) = 13
    /\ Len(resp.body.failure_by_branch) = 10
    /\ resp.body.failure_by_branch[1].failure_rate = 10000
    /\ resp.body.failure_by_branch[10].failure_rate = 3333
    /\ \A i \in 1..10 : resp.body.failure_by_branch[i].key # "b02"



\* C26: after any sequence of create and delete calls, starting from the two default
\* rules, the rules of notification_rules have pairwise distinct ids
C26_RuleIdsDistinct ==
    \A i, j \in 1..Len(notification_rules) :
        i # j => notification_rules[i].id # notification_rules[j].id

\* C27: an update changes only the rule it targets (the first rule of the list with
\* the requested id) and, of that rule, only the fields the request supplies and
\* updated_at: the id, created_at and the position of the rule, the fields not
\* supplied, every other rule and the length of the list are as before; for an id
\* no rule has, the response is 404 and the list is as before
C27_UpdateTouchesOnlySuppliedFields ==
    [][ op' = "update_rule" =>
          LET rule_id == resp'.request.rule_id
              rule_update == resp'.request.rule_update
              targets == {i \in 1..Len(notification_rules) :
                              notification_rules[i].id = rule_id}
          IN  IF targets = {}
              THEN /\ resp'.body.status = 404
                   /\ notification_rules' = notification_rules
              ELSE LET t == CHOOSE i \in targets : \A j \in targets : i <= j
                       old == notification_rules[t]
                       new == notification_rules'[t]
                   IN  /\ resp'.body.status = 200
                       /\ Len(notification_rules') = Len(notification_rules)
                       /\ \A j \in 1..Len(notification_rules) :
                              j # t => notification_rules'[j] = notification_rules[j]
                       /\ new.id = old.id
                       /\ new.created_at = old.created_at
                       /\ \A f \in {"name", "description", "trigger_events",
                                     "conditions", "channels", "enabled"} :
                              new[f] = IF rule_update[f] = PyNone THEN old[f]
                                       ELSE rule_update[f].val
      ]_vars

\* The second default rule was given new channels: it is still second, enabled and
\* as old as it was, and the first rule was not touched
C27_Witness ==
    /\ op = "update_rule"
    /\ resp.body.status = 200
    /\ resp.request.rule_id = 2
    /\ resp.request.rule_update.channels # PyNone
    /\ Len(notification_rules) = 2
    /\ notification_rules[2].channels = <<"email", "slack">>
    /\ notification_rules[2].enabled
    /\ notification_rules[2].created_at = "T0"
    /\ notification_rules[2].updated_at = "T2"
    /\ notification_rules[1].updated_at = "T0"


\* C28: a websocket is in active_connections iff it has an entry in subscriptions,
\* it is in active_connections at most once, and only a websocket that connected
\* and has not been disconnected has an entry: subscribe creates none
C28_ConnectionsMatchSubscriptions ==
    /\ {active_connections[i] : i \in 1..Len(active_connections)} = DOMAIN subscriptions
    /\ \A i, j \in 1..Len(active_connections) :
           i # j => active_connections[i] # active_connections[j]
    /\ \A w \in DOMAIN subscriptions : endpoints[w] # "new"

\* All four operations have acted: a websocket was disconnected by its endpoint,
\* a broadcast took another off the list after a send that raised, though its
\* endpoint is still open, and a third is connected and subscribed to every event
C28_Witness ==
    /\ broadcast.pc = "done"
    /\ broadcast.disconnected # <<>>
    /\ \E w \in Sockets : endpoints[w] = "closed"
    /\ \E w \in Sockets : endpoints[w] = "open" /\ w \notin DOMAIN subscriptions
    /\ \E w \in DOMAIN subscriptions : subscriptions[w] = WsEvents

\* C29: when a broadcast for event type E is over, every connection that was
\* connected and subscribed to E from its beginning to its end, and whose send did
\* not raise, was sent the message exactly once; no connection whose subscription
\* set lacks E was sent it; and every connection whose send raised is off the list
C29_BroadcastReachesSubscribers ==
    broadcast.pc = "done" =>
        /\ \A w \in broadcast.audience :
               (endpoints[w] = "open" /\ ~InSeq(w, broadcast.disconnected))
                   => Occurrences(w, broadcast.delivered) = 1
        /\ \A w \in DOMAIN subscriptions :
               InSeq(w, broadcast.delivered) => broadcast.event_type \in subscriptions[w]
        /\ \A i \in 1..Len(broadcast.disconnected) :
               ~InSeq(broadcast.disconnected[i], active_connections)


\* C30: in the response of get_failure_analysis the values of failure_trend add up
\* to total_failures: every failed completed run that passed the lookback filter
\* is counted in exactly one entry
C30_TrendCountsEveryFailure ==
    (op = "failure_analysis" /\ resp.body.status = 200) =>
        SumSeq([k \in 1..Len(resp.body.failure_trend) |->
                    resp.body.failure_trend[k].value]) = resp.body.total_failures

=============================================================================
